---------------------------- MODULE Spec2Model ----------------------------
(***************************************************************************)
(* FinTwin: the deterministic financial-analysis engine of src/app.py,     *)
(* src/financial_simulator.py and src/financial_ai.py.                     *)
(*                                                                         *)
(* Numbers.  Python computes on floats; the model computes on exact        *)
(* rationals [n, d] in lowest terms with d > 0.  float('inf') is [1, 0],   *)
(* and a division whose divisor is zero raises ZeroDivisionError, which    *)
(* the model keeps as the value ZeroDivisionError.  Rounding error of the  *)
(* floats (1 ulp) is outside the model.                                    *)
(***************************************************************************)
EXTENDS Integers, Sequences, FiniteSets, TLC

(***************************************************************************)
(* Bounds of the model.                                                    *)
(***************************************************************************)
\* Most expense periods a snapshot holds.
MaxPeriods == 2
\* The month counter of the repayment schedule is exact below this.
MaxMonth == 4

(***************************************************************************)
(* Arithmetic                                                              *)
(***************************************************************************)
Abs(x) == IF x < 0 THEN -x ELSE x

\* Euclid's algorithm, as a function so that its arguments are values.
gcd[a \in Nat, b \in Nat] == IF b = 0 THEN a ELSE gcd[b, a % b]
GCD(a, b) == gcd[a, b]

\* The rational n/d in lowest terms, d > 0.
Norm(n, d) ==
    LET g == GCD(Abs(n), d)
    IN  [n |-> n \div g, d |-> d \div g]

Num(k) == [n |-> k, d |-> 1]
\* A decimal literal given in hundredths: 0.15 is Pct(15).
Pct(p) == Norm(p, 100)
\* float('inf')
Inf == [n |-> 1, d |-> 0]
IsInf(a) == a.d = 0

RLt(a, b) == a.n * b.d < b.n * a.d
RLe(a, b) == a.n * b.d <= b.n * a.d
RGt(a, b) == RLt(b, a)
RGe(a, b) == RLe(b, a)
REq(a, b) == a.n * b.d = b.n * a.d /\ a.d = b.d

\* Sums over the least common denominator, which keeps the integers small.
CommonFactor(a, b) == IF a.d = 0 /\ b.d = 0 THEN 1 ELSE GCD(a.d, b.d)
RAdd(a, b) ==
    LET g == CommonFactor(a, b)
    IN  Norm(a.n * (b.d \div g) + b.n * (a.d \div g), (a.d \div g) * b.d)
RSub(a, b) ==
    LET g == CommonFactor(a, b)
    IN  Norm(a.n * (b.d \div g) - b.n * (a.d \div g), (a.d \div g) * b.d)
RMul(a, b) == Norm(a.n * b.n, a.d * b.d)
\* a / b for b # 0 (the callers guard or test the divisor).
RDiv(a, b) ==
    IF b.n < 0 THEN Norm(-(a.n * b.d), a.d * (-b.n))
    ELSE Norm(a.n * b.d, a.d * b.n)
RMin(a, b) == IF RLe(a, b) THEN a ELSE b
RMax(a, b) == IF RGe(a, b) THEN a ELSE b

\* The exception a Python division by zero raises, as a value.
ZeroDivisionError == [err |-> "ZeroDivisionError"]
IsErr(x) == "err" \in DOMAIN x
\* Python's a / b.
PyDiv(a, b) == IF b.n = 0 THEN ZeroDivisionError ELSE RDiv(a, b)

(***************************************************************************)
(* The session's snapshot: st.session_state.financial_data                 *)
(***************************************************************************)
\* The first categories of st.session_state.expense_categories.
expense_categories == <<"Rent/Mortgage", "Utilities">>
Categories == {expense_categories[i] : i \in DOMAIN expense_categories}

\* Period keys "<year>-<MonthName>", in the order the periods are entered.
PeriodKeys == <<"2024-January", "2024-February", "2024-March">>

\* Values of the inputs.
Amounts == {0, 400, 500}
Incomes == {0, 1000}
SavingsValues == {0, 500, 3000}
DebtValues == {0, 2400, 3600, 4800, 6000}

\* st.session_state.financial_data = None
None == [none |-> TRUE]
IsNone(x) == "none" \in DOMAIN x

\* One period's expenses: category -> amount.
AmountMaps == [Categories -> Amounts]

\* monthly_expenses: an ordered mapping period key -> (category -> amount),
\* as the sequence of its items in insertion order.  A period's mapping is
\* the function amounts together with the order of its keys.
ExpenseMaps ==
    UNION {
        {[i \in 1..k |-> [key |-> PeriodKeys[i], amounts |-> f[i],
                          order |-> expense_categories]] :
            f \in [1..k -> AmountMaps]} : k \in 0..MaxPeriods}

BasicInfos ==
    [income : Incomes, savings : SavingsValues, debt : DebtValues]

\* What import_financial_data stores in financial_data.
Snapshots ==
    {[basic_info |-> b, monthly_expenses |-> m] :
        b \in BasicInfos, m \in ExpenseMaps}

RECURSIVE SumCategories(_, _)
\* sum(month_data.values())
SumCategories(amounts, cats) ==
    IF cats = {} THEN 0
    ELSE LET c == CHOOSE x \in cats : TRUE
         IN  amounts[c] + SumCategories(amounts, cats \ {c})

RECURSIVE SumPeriods(_)
\* sum(sum(month_data.values()) for month_data in expenses.values())
SumPeriods(expenses) ==
    IF expenses = <<>> THEN 0
    ELSE SumCategories(Head(expenses).amounts, DOMAIN Head(expenses).amounts)
         + SumPeriods(Tail(expenses))

\* avg_expenses = 0; if expenses: avg_expenses = sum(...) / len(expenses)
AvgExpenses(expenses) ==
    IF Len(expenses) = 0 THEN Num(0)
    ELSE Norm(SumPeriods(expenses), Len(expenses))


(***************************************************************************)
(* Health Scorer: FinTwinApp._calculate_health_score                       *)
(***************************************************************************)
\* financial_data.get('basic_info', {}).get(k, 0) and the average expense.
\* d.get(k, default), and financial_data.get('basic_info', {})
DictGet(d, k, default) == IF k \in DOMAIN d THEN d[k] ELSE default
basic_info_of(fd) == DictGet(fd, "basic_info", <<>>)
monthly_income(fd) == Num(DictGet(basic_info_of(fd), "income", 0))
current_savings(fd) == Num(DictGet(basic_info_of(fd), "savings", 0))
current_debt(fd) == Num(DictGet(basic_info_of(fd), "debt", 0))
avg_expenses(fd) == AvgExpenses(DictGet(fd, "monthly_expenses", <<>>))

\* (monthly_income - avg_expenses) / monthly_income if monthly_income > 0 else 0
savings_rate(fd) ==
    IF RGt(monthly_income(fd), Num(0))
    THEN RDiv(RSub(monthly_income(fd), avg_expenses(fd)), monthly_income(fd))
    ELSE Num(0)

\* current_debt / (monthly_income * 12) if monthly_income > 0 else 0
debt_to_income(fd) ==
    IF RGt(monthly_income(fd), Num(0))
    THEN RDiv(current_debt(fd), RMul(monthly_income(fd), Num(12)))
    ELSE Num(0)

\* current_savings / avg_expenses if avg_expenses > 0 else 0
emergency_fund_months(fd) ==
    IF RGt(avg_expenses(fd), Num(0))
    THEN RDiv(current_savings(fd), avg_expenses(fd))
    ELSE Num(0)

\* avg_expenses / monthly_income if monthly_income > 0 else 1
expense_ratio(fd) ==
    IF RGt(monthly_income(fd), Num(0))
    THEN RDiv(avg_expenses(fd), monthly_income(fd))
    ELSE Num(1)

\* SavingsRatePoints with the awards of its two top buckets exchanged.
SavingsRatePointsSwapped(sr) ==
    IF RGe(sr, Pct(20)) THEN 25
    ELSE IF RGe(sr, Pct(15)) THEN 30
    ELSE IF RGe(sr, Pct(10)) THEN 20
    ELSE IF RGe(sr, Pct(5)) THEN 15
    ELSE 10

\* 1. Savings Rate (30% weight)
SavingsRatePoints(sr) ==
    IF RGe(sr, Pct(20)) THEN 30
    ELSE IF RGe(sr, Pct(15)) THEN 25
    ELSE IF RGe(sr, Pct(10)) THEN 20
    ELSE IF RGe(sr, Pct(5)) THEN 15
    ELSE 10

\* 2. Emergency Fund (25% weight)
EmergencyFundPoints(ef) ==
    IF RGe(ef, Num(6)) THEN 25
    ELSE IF RGe(ef, Num(3)) THEN 20
    ELSE IF RGe(ef, Num(1)) THEN 15
    ELSE 10

\* 3. Debt-to-Income Ratio (25% weight)
DebtToIncomePoints(dti) ==
    IF RLt(dti, Pct(20)) THEN 25
    ELSE IF RLt(dti, Pct(30)) THEN 20
    ELSE IF RLt(dti, Pct(40)) THEN 15
    ELSE IF RLt(dti, Pct(50)) THEN 10
    ELSE 5

\* 4. Expense-to-Income Ratio (20% weight)
ExpenseRatioPoints(er) ==
    IF RLt(er, Pct(50)) THEN 20
    ELSE IF RLt(er, Pct(70)) THEN 15
    ELSE IF RLt(er, Pct(80)) THEN 10
    ELSE 5

\* total_weight += 30; += 25; += 25; += 20
total_weight == 30 + 25 + 25 + 20

\* final_score = (score / total_weight) * 100; min(100, max(0, final_score))
FinalScore(score) ==
    RMin(Num(100), RMax(Num(0), RMul(Norm(score, total_weight), Num(100))))

\* The score of four ratios: lines 948-999.
ScoreOfRatios(sr, ef, dti, er) ==
    FinalScore(SavingsRatePoints(sr) + EmergencyFundPoints(ef)
               + DebtToIncomePoints(dti) + ExpenseRatioPoints(er))

_calculate_health_score(fd) ==
    ScoreOfRatios(savings_rate(fd), emergency_fund_months(fd),
                  debt_to_income(fd), expense_ratio(fd))

(***************************************************************************)
(* Strength/Weakness Classifier: FinTwinApp._calculate_strengths_weaknesses*)
(***************************************************************************)
\* d.get(k, default), and "k in d"
Get(d, k, default) == IF k \in DOMAIN d THEN d[k] ELSE default

\* if cond: list.append(tag)
Tag(cond, tag) == IF cond THEN <<tag>> ELSE <<>>

\* The strength rules with every elif written as an if.
RuleStrengthsWithoutElif(fd) ==
    LET sr == savings_rate(fd)
        ef == emergency_fund_months(fd)
        dti == debt_to_income(fd)
    IN  Tag(RGe(sr, Pct(20)), "Excellent savings rate (>=20%)")
        \o Tag(RGe(sr, Pct(15)), "Good savings rate (>=15%)")
        \o Tag(RGe(ef, Num(6)), "Strong emergency fund (>=6 months)")
        \o Tag(RGe(ef, Num(3)), "Adequate emergency fund (>=3 months)")
        \o Tag(RLt(dti, Pct(20)), "Low debt-to-income ratio (<20%)")
        \o Tag(RLt(dti, Pct(30)), "Healthy debt-to-income ratio (<30%)")
        \o Tag(RGt(current_savings(fd), Num(0)), "Positive savings balance")

RuleStrengths(fd) ==
    LET sr == savings_rate(fd)
        ef == emergency_fund_months(fd)
        dti == debt_to_income(fd)
    IN  (IF RGe(sr, Pct(20)) THEN <<"Excellent savings rate (>=20%)">>
         ELSE Tag(RGe(sr, Pct(15)), "Good savings rate (>=15%)"))
        \o
        (IF RGe(ef, Num(6)) THEN <<"Strong emergency fund (>=6 months)">>
         ELSE Tag(RGe(ef, Num(3)), "Adequate emergency fund (>=3 months)"))
        \o
        (IF RLt(dti, Pct(20)) THEN <<"Low debt-to-income ratio (<20%)">>
         ELSE Tag(RLt(dti, Pct(30)), "Healthy debt-to-income ratio (<30%)"))
        \o
        Tag(RGt(current_savings(fd), Num(0)), "Positive savings balance")

RuleWeaknesses(fd) ==
    LET sr == savings_rate(fd)
        ef == emergency_fund_months(fd)
        dti == debt_to_income(fd)
    IN  Tag(RLt(sr, Pct(10)), "Low savings rate (<10%)")
        \o Tag(RLt(ef, Num(3)), "Insufficient emergency fund (<3 months)")
        \o Tag(RGt(dti, Pct(40)), "High debt-to-income ratio (>40%)")
        \o Tag(RGt(avg_expenses(fd), RMul(monthly_income(fd), Pct(80))),
               "High expense-to-income ratio (>80%)")

\* Returns (strengths, weaknesses); the delegate's own lists are appended.
_calculate_strengths_weaknesses(fd, analysis) ==
    [strengths |-> RuleStrengths(fd) \o Get(analysis, "strengths", <<>>),
     weaknesses |-> RuleWeaknesses(fd) \o Get(analysis, "weaknesses", <<>>)]

(***************************************************************************)
(* FinancialAI.analyze_financial_health and its fallback                   *)
(***************************************************************************)
\* What the call of the OpenAI client can do: it raises (self.client was
\* never set for want of an API key, or the request fails), the content is
\* not JSON, or it is a JSON object carrying some of the expected keys.
HealthResponses ==
    {[analysis |-> "text"],
     [analysis |-> "text", risk_level |-> "High"]}

HealthOutcomes ==
    {[kind |-> "api_error"], [kind |-> "not_json"]}
    \cup {[kind |-> "json", response_data |-> r] : r \in HealthResponses}

\* _predict_health_score, _predict_risk_level, _project_savings: placeholders
_fallback_analysis(user_data) ==
    [health_score |-> Num(75),
     risk_level |-> "Moderate",
     savings_projection |-> Num(10000),
     analysis |-> "Your financial health is in good shape. Consider increasing your savings rate."]

analyze_financial_health(user_data, outcome) ==
    IF outcome.kind = "json"
    THEN [health_score |-> Get(outcome.response_data, "health_score", Num(0)),
          risk_level |-> Get(outcome.response_data, "risk_level", "Unknown"),
          savings_projection |->
              Get(outcome.response_data, "savings_projection", Num(0)),
          analysis |-> Get(outcome.response_data, "analysis", "")]
    ELSE _fallback_analysis(user_data)

(***************************************************************************)
(* State                                                                   *)
(***************************************************************************)
VARIABLES
    financial_data,   \* st.session_state.financial_data
    user_data,        \* st.session_state.user_data
    monthly_expenses, \* st.session_state.monthly_expenses
    view,             \* what the last operation displayed or returned
    planner           \* the repayment-schedule loop of the debt planner

vars == <<financial_data, user_data, monthly_expenses, view, planner>>

\* The session as initialize_session_state leaves user_data and
\* monthly_expenses.
FreshInputs ==
    /\ user_data = None
    /\ monthly_expenses = <<>>

\* The session as import_financial_data leaves it: financial_data holds the
\* very basic_info and monthly_expenses that the session holds.
ImportedInputs ==
    /\ user_data = IF IsNone(financial_data) THEN None
                   ELSE financial_data.basic_info
    /\ monthly_expenses = IF IsNone(financial_data) THEN <<>>
                          ELSE financial_data.monthly_expenses

NoView == [op |-> "none"]
PlannerIdle == [pc |-> "idle"]

(***************************************************************************)
(* FinTwinApp.show_financial_health                                        *)
(***************************************************************************)
\* "#2ecc71" if health_score >= 70 else "#f1c40f" if >= 40 else "#e74c3c"
score_color(health_score) ==
    IF RGe(health_score, Num(70)) THEN "#2ecc71"
    ELSE IF RGe(health_score, Num(40)) THEN "#f1c40f"
    ELSE "#e74c3c"

\* The months to repay as the remainder of the surplus would give them.
months_to_repay_with_remainder(debt, monthly_surplus, percentage) ==
    RDiv(Num(debt), RMul(monthly_surplus, RSub(Num(1), percentage)))

\* months_to_repay = current_debt / (monthly_surplus * percentage)
months_to_repay(debt, monthly_surplus, percentage) ==
    RDiv(Num(debt), RMul(monthly_surplus, percentage))

\* The "Debt Analysis" tab, lines 786-893: the strategies when there is a
\* debt, an income and a surplus; the warning when there is a debt and an
\* income but no surplus; nothing otherwise.
debt_analysis(fd) ==
    IF RGt(current_debt(fd), Num(0)) /\ RGt(monthly_income(fd), Num(0))
    THEN LET monthly_surplus == RSub(monthly_income(fd), avg_expenses(fd))
             debt == current_debt(fd).n
         IN  IF RGt(monthly_surplus, Num(0))
             THEN [shown |-> "Debt Repayment Strategies",
                   monthly_surplus |-> monthly_surplus,
                   months_to_repay |-> RDiv(current_debt(fd), monthly_surplus),
                   months |->
                       [Aggressive |->
                            months_to_repay(debt, monthly_surplus, Pct(80)),
                        Balanced |->
                            months_to_repay(debt, monthly_surplus, Pct(50)),
                        Conservative |->
                            months_to_repay(debt, monthly_surplus, Pct(30))]]
             ELSE [shown |-> "not enough monthly surplus",
                   monthly_surplus |-> monthly_surplus]
    ELSE [shown |-> "nothing"]

HealthView(fd, outcome) ==
    IF IsNone(fd)
    THEN [op |-> "show_financial_health", shown |-> "Data Required"]
    ELSE LET analysis == analyze_financial_health(fd, outcome)
             health_score == _calculate_health_score(fd)
             sw == _calculate_strengths_weaknesses(fd, analysis)
         IN  [op |-> "show_financial_health",
              shown |-> "Financial Health Score",
              delegate |-> outcome.kind,
              health_score |-> health_score,
              score_color |-> score_color(health_score),
              risk_level |-> analysis.risk_level,
              strengths |-> sw.strengths,
              weaknesses |-> sw.weaknesses,
              debt_analysis |-> debt_analysis(fd)]

ShowFinancialHealth ==
    \E outcome \in HealthOutcomes :
        /\ view' = HealthView(financial_data, outcome)
        /\ UNCHANGED <<financial_data, user_data, monthly_expenses, planner>>

(***************************************************************************)
(* Specification of the health page over every snapshot                    *)
(***************************************************************************)
Init ==
    /\ financial_data \in Snapshots \cup {None}
    /\ ImportedInputs
    /\ view = NoView
    /\ planner = PlannerIdle

Next == ShowFinancialHealth

Spec == Init /\ [][Next]_vars

(***************************************************************************)
(* FinTwinApp.show_debt_repayment_planner                                  *)
(***************************************************************************)
\* The planner reads financial_data.get('monthly_income', 0),
\* .get('debt', 0) and .get('monthly_expenses', {}).  The values below keep
\* the exact arithmetic of the schedule within range: with a surplus > 0
\* the balanced payment either clears the debt within MaxMonth payments or
\* equals the first month's interest.
PlannerIncomes == {0, 20, 2400, 3000}
PlannerDebts == {0, 1200}
PlannerData ==
    [monthly_income : PlannerIncomes, debt : PlannerDebts,
     monthly_expenses : ExpenseMaps]

\* strategies = {"Aggressive": 0.8, "Balanced": 0.5, "Conservative": 0.3}
strategies == [Aggressive |-> Pct(80), Balanced |-> Pct(50), Conservative |-> Pct(30)]

planner_surplus(fd) ==
    RSub(Num(Get(fd, "monthly_income", 0)),
         AvgExpenses(Get(fd, "monthly_expenses", <<>>)))

\* Lines 1578-1631: up to the first test of the while loop.
PlannerOpen ==
    /\ planner.pc = "idle"
    /\ IF IsNone(financial_data)
       THEN /\ view' = [op |-> "show_debt_repayment_planner",
                        shown |-> "Please import your financial data first"]
            /\ planner' = [pc |-> "done", month |-> 1]
       ELSE LET monthly_surplus == planner_surplus(financial_data)
                debt == Get(financial_data, "debt", 0)
            IN  IF RGt(monthly_surplus, Num(0))
                THEN /\ view' =
                            [op |-> "show_debt_repayment_planner",
                             shown |-> "Repayment Strategies",
                             monthly_surplus |-> monthly_surplus,
                             months |->
                                 [st \in DOMAIN strategies |->
                                     months_to_repay(debt, monthly_surplus,
                                                     strategies[st])]]
                     /\ planner' =
                            [pc |-> "loop",
                             remaining_debt |-> Num(debt),
                             monthly_payment |-> RMul(monthly_surplus, Pct(50)),
                             month |-> 1]
                ELSE /\ view' = [op |-> "show_debt_repayment_planner",
                                 shown |-> "not enough monthly surplus",
                                 monthly_surplus |-> monthly_surplus]
                     /\ planner' = [pc |-> "done", month |-> 1]
    /\ UNCHANGED <<financial_data, user_data, monthly_expenses>>

\* interest = remaining_debt * 0.1 / 12
planner_interest(remaining_debt) ==
    RDiv(RMul(remaining_debt, Pct(10)), Num(12))

\* principal = min(monthly_payment - interest, remaining_debt)
planner_principal(monthly_payment, interest, remaining_debt) ==
    RMin(RSub(monthly_payment, interest), remaining_debt)

\* month += 1.  The model keeps the month exactly below MaxMonth; from
\* there on MaxMonth - 1 and MaxMonth stand for the later months of the same
\* parity.
NextMonth(month) == IF month < MaxMonth THEN month + 1 ELSE MaxMonth - 1

\* One pass of "while remaining_debt > 0": a row is appended, month += 1.
PlannerLoopStep ==
    /\ planner.pc = "loop"
    /\ RGt(planner.remaining_debt, Num(0))
    /\ \E interest \in {planner_interest(planner.remaining_debt)} :
       \E principal \in {planner_principal(planner.monthly_payment, interest,
                                           planner.remaining_debt)} :
           planner' =
               [planner EXCEPT
                   !.remaining_debt = RSub(@, principal),
                   !.month = NextMonth(@)]
    /\ UNCHANGED <<financial_data, user_data, monthly_expenses, view>>

\* The loop test fails: st.dataframe(schedule)
PlannerLoopExit ==
    /\ planner.pc = "loop"
    /\ ~RGt(planner.remaining_debt, Num(0))
    /\ planner' = [planner EXCEPT !.pc = "done"]
    /\ UNCHANGED <<financial_data, user_data, monthly_expenses, view>>

InitPlanner ==
    /\ financial_data \in PlannerData \cup {None}
    /\ FreshInputs
    /\ view = NoView
    /\ planner = PlannerIdle

NextPlanner ==
    \/ PlannerOpen
    \/ PlannerLoopStep
    \/ PlannerLoopExit

\* A running loop keeps running: its next pass, or its exit, is taken.
SpecPlanner ==
    /\ InitPlanner
    /\ [][NextPlanner]_vars
    /\ WF_vars(PlannerLoopStep)
    /\ WF_vars(PlannerLoopExit)

(***************************************************************************)
(* Scenario Simulator: FinancialSimulator (src/financial_simulator.py)     *)
(***************************************************************************)
\* int(x): truncation toward zero.
Trunc(a) == IF a.n >= 0 THEN a.n \div a.d ELSE -((-a.n) \div a.d)

\* total_savings / avg_monthly_expenses if avg_monthly_expenses > 0 else 0
savings_ratio(fd) ==
    IF RGt(avg_expenses(fd), Num(0))
    THEN RDiv(current_savings(fd), avg_expenses(fd))
    ELSE Num(0)

\* asset_info["cost"] / total_savings if total_savings > 0 else float('inf')
asset_to_savings_ratio(fd, asset_info) ==
    IF RGt(current_savings(fd), Num(0))
    THEN RDiv(Num(asset_info.cost), current_savings(fd))
    ELSE Inf

\* total_debt / monthly_income if monthly_income > 0 else float('inf')
debt_to_income_ratio(fd) ==
    IF RGt(monthly_income(fd), Num(0))
    THEN RDiv(current_debt(fd), monthly_income(fd))
    ELSE Inf

\* "High" if risk_range >= 8 else "Medium" if risk_range >= 5 else "Low"
risk_level(risk_range) ==
    IF risk_range >= 8 THEN "High"
    ELSE IF risk_range >= 5 THEN "Medium"
    ELSE "Low"

\* The literal each branch of lines 155-163 compares the ratio with.
risk_threshold(risk_range) ==
    IF risk_range >= 8 THEN Pct(70)
    ELSE IF risk_range >= 5 THEN Pct(50)
    ELSE Pct(30)

\* "Cash" if asset_to_savings_ratio < t else "Installments"
payment_recommendation(ratio, risk_range) ==
    IF RLt(ratio, risk_threshold(risk_range)) THEN "Cash" ELSE "Installments"

\* "Consider saving more before purchase" if asset_to_savings_ratio > t
\* else "Proceed with purchase if needed"
recommended_action(ratio, risk_range) ==
    IF RGt(ratio, risk_threshold(risk_range))
    THEN "Consider saving more before purchase"
    ELSE "Proceed with purchase if needed"

\* max(1, min(10, int(10 - (asset_to_savings_ratio * 5)))) if total_savings > 0 else 1
stability_score(fd, asset_info) ==
    IF RGt(current_savings(fd), Num(0))
    THEN LET x == Trunc(RSub(Num(10),
                             RMul(asset_to_savings_ratio(fd, asset_info), Num(5))))
         IN  IF x > 10 THEN 10 ELSE IF x < 1 THEN 1 ELSE x
    ELSE 1

\* f"{asset_info['cost'] / monthly_surplus:.1f} months" if monthly_surplus > 0
\* else "Unable to calculate"
recovery_time(fd, asset_info) ==
    LET monthly_surplus == RSub(monthly_income(fd), avg_expenses(fd))
    IN  IF RGt(monthly_surplus, Num(0))
        THEN [months |-> RDiv(Num(asset_info.cost), monthly_surplus)]
        ELSE [text |-> "Unable to calculate"]

_generate_fallback_analysis(fd, asset_info, risk_range, custom_prompt) ==
    LET ratio == asset_to_savings_ratio(fd, asset_info)
    IN  [financial_health_analysis |->
             [overall_health |-> "Basic financial health assessment",
              strengths |-> <<"Regular income stream", "Existing savings">>,
              weaknesses |-> <<"Potential high debt-to-income ratio",
                               "Limited emergency fund">>,
              emergency_fund_status |-> savings_ratio(fd),
              debt_management |-> debt_to_income_ratio(fd),
              savings_rate |->
                  IF RGt(monthly_income(fd), Num(0))
                  THEN [percent |->
                           RMul(RDiv(RSub(monthly_income(fd), avg_expenses(fd)),
                                     monthly_income(fd)), Num(100))]
                  ELSE [text |-> "Unable to calculate"],
              short_term_goals |-> <<"Build emergency fund",
                                     "Reduce monthly expenses">>,
              long_term_goals |-> <<"Achieve financial stability", "Build wealth">>],
         positives |-> <<"Asset could be an investment", "May improve quality of life">>,
         negatives |-> <<"Reduces financial buffer", "May impact emergency fund">>,
         financial_impact |->
             IF RGt(current_savings(fd), Num(0))
             THEN [percent_of_savings |-> RMul(ratio, Num(100))]
             ELSE [text |-> "No savings available"],
         payment_recommendation |-> payment_recommendation(ratio, risk_range),
         recovery_time |-> recovery_time(fd, asset_info),
         stability_score |-> stability_score(fd, asset_info),
         cost_cutting_suggestions |-> <<"Review subscription services",
                                        "Optimize daily expenses",
                                        "Consider delayed purchase">>,
         metrics |->
             [monthly_surplus |-> RSub(monthly_income(fd), avg_expenses(fd)),
              savings_ratio |-> savings_ratio(fd),
              asset_to_savings_ratio |-> ratio,
              debt_to_income_ratio |-> debt_to_income_ratio(fd),
              emergency_fund_coverage |-> savings_ratio(fd),
              risk_level |-> risk_level(risk_range),
              recommended_action |-> recommended_action(ratio, risk_range)],
         custom_analysis |->
             IF custom_prompt = "" THEN ""
             ELSE "Custom considerations: " \o custom_prompt]

\* The keys of the delegate's response contract (the RESPONSE FORMAT of the
\* prompt, lines 72-103).
ContractKeys ==
    {"financial_health_analysis", "positives", "negatives", "financial_impact",
     "payment_recommendation", "recovery_time", "stability_score",
     "cost_cutting_suggestions", "metrics"}

\* JSON objects the delegate may answer with: one with every key of the
\* contract, and one that lacks some.
CompleteResponse ==
    [financial_health_analysis |-> [overall_health |-> "text"],
     positives |-> <<"text">>,
     negatives |-> <<"text">>,
     financial_impact |-> [text |-> "text"],
     payment_recommendation |-> "Cash",
     recovery_time |-> [text |-> "text"],
     stability_score |-> 7,
     cost_cutting_suggestions |-> <<"text">>,
     metrics |-> [risk_level |-> "Low"]]

InsightResponses ==
    {CompleteResponse,
     [positives |-> <<"text">>, negatives |-> <<"text">>]}

\* What happens at "if not self.model" and inside the try of lines 119-127.
InsightOutcomes ==
    {[kind |-> "no_model"], [kind |-> "raises"], [kind |-> "empty_response"],
     [kind |-> "not_json"]}
    \cup {[kind |-> "json", response |-> r] : r \in InsightResponses}

generate_financial_insights(fd, asset_info, risk_range, custom_prompt, outcome) ==
    IF outcome.kind = "json"
    THEN outcome.response
    ELSE _generate_fallback_analysis(fd, asset_info, risk_range, custom_prompt)

\* Values of the playground's inputs.
AssetCosts == {0, 3000, 4000, 5000, 7000, 8000}
RiskRanges == {1, 4, 5, 7, 8, 10}
CustomPrompts == {""}
AssetInfos ==
    [name : {"car"}, cost : AssetCosts, urgency : {"Medium"},
     payment_type : {"Cash"}]

\* Snapshots of the playground.
ScenarioSnapshots ==
    {[basic_info |-> b, monthly_expenses |-> m] :
        b \in [income : {0, 5000}, savings : {0, 10000}, debt : {6000}],
        m \in {<<>>,
               <<[key |-> PeriodKeys[1],
                  amounts |-> [c \in Categories |->
                      IF c = expense_categories[1] THEN 2000 ELSE 1000],
                  order |-> expense_categories]>>}}

\* show_simulation_playground: "Run Simulation"
RunSimulation ==
    /\ \E asset_info \in AssetInfos, risk_range \in RiskRanges,
          custom_prompt \in CustomPrompts, outcome \in InsightOutcomes :
           view' =
               IF IsNone(financial_data)
               THEN [op |-> "show_simulation_playground",
                     shown |-> "Please complete your financial profile first."]
               ELSE [op |-> "show_simulation_playground",
                     shown |-> "insights",
                     asset_info |-> asset_info,
                     risk_range |-> risk_range,
                     custom_prompt |-> custom_prompt,
                     delegate |-> outcome.kind,
                     simulation_insights |->
                         generate_financial_insights(financial_data, asset_info,
                             risk_range, custom_prompt, outcome)]
    /\ UNCHANGED <<financial_data, user_data, monthly_expenses, planner>>

InitScenario ==
    /\ financial_data \in ScenarioSnapshots \cup {None}
    /\ ImportedInputs
    /\ view = NoView
    /\ planner = PlannerIdle

NextScenario == RunSimulation

SpecScenario == InitScenario /\ [][NextScenario]_vars

(***************************************************************************)
(* Financial tools: the loan and investment calculators of src/app.py and  *)
(* the simulations of FinancialAI (src/financial_ai.py)                    *)
(***************************************************************************)
RECURSIVE RPow(_, _)
RPow(a, k) == IF k = 0 THEN Num(1) ELSE RMul(a, RPow(a, k - 1))

\* a ** e for a > 0 and an integer e
PyPow(a, e) == IF e >= 0 THEN RPow(a, e) ELSE RDiv(Num(1), RPow(a, -e))

\* (amount * rate) / (1 - (1 + rate) ** -term)
loan_monthly_payment(amount, rate, term) ==
    PyDiv(RMul(amount, rate),
          RSub(Num(1), PyPow(RAdd(Num(1), rate), -term)))

\* Values of the calculators' inputs.  The rates are annual percentages
\* whose monthly rate is 0, 1 and 2, so that (1 + monthly_rate) ** 12 and
\* the rows of the month-by-month tables stay exact.
LoanAmounts == {1000, 2000}
LoanYears == {1}
AnnualRates == {0, 1200, 2400}
InitialInvestments == {1000, 2000}
MonthlyContributions == {0, 100, 500}
InvestmentYears == {1}

\* The payment is a float: the quotient of two floats, one of them the
\* result of the platform's pow.  The float stored is the exact quotient or
\* one of its neighbours, here one unit of the quotient's denominator below
\* or above it.
FloatRoundings == {-1, 0, 1}
float_of(x, rounding) == Norm(x.n + rounding, x.d)

\* "for month in range(1, term_months + 1)": the rows of the schedule after
\* the given number of months, the last row first in the recursion.
RECURSIVE amortization_schedule(_, _, _, _)
amortization_schedule(loan_amount, monthly_rate, monthly_payment, month) ==
    IF month = 0 THEN <<>>
    ELSE LET rows == amortization_schedule(loan_amount, monthly_rate,
                                           monthly_payment, month - 1)
             remaining_balance ==
                 IF month = 1 THEN Num(loan_amount)
                 ELSE rows[month - 1].remaining_balance
             interest_payment == RMul(remaining_balance, monthly_rate)
             principal_payment == RSub(monthly_payment, interest_payment)
         IN  Append(rows,
                    [month |-> month,
                     principal_payment |-> principal_payment,
                     interest_payment |-> interest_payment,
                     remaining_balance |->
                         RSub(remaining_balance, principal_payment)])

\* show_loan_calculator: "Calculate"
loan_summary(loan_amount, loan_term, interest_rate, rounding) ==
    LET term_months == loan_term * 12
        monthly_rate == RDiv(RDiv(Num(interest_rate), Num(100)), Num(12))
        quotient ==
            loan_monthly_payment(Num(loan_amount), monthly_rate, term_months)
    IN  IF IsErr(quotient) THEN quotient
        ELSE LET monthly_payment == float_of(quotient, rounding)
                 total_interest ==
                     RSub(RMul(monthly_payment, Num(term_months)), Num(loan_amount))
             IN  [monthly_payment |-> monthly_payment,
                  total_interest |-> total_interest,
                  total_cost |-> RAdd(Num(loan_amount), total_interest),
                  schedule |->
                      amortization_schedule(loan_amount, monthly_rate,
                                            monthly_payment, term_months)]

ShowLoanCalculator ==
    /\ \E loan_amount \in LoanAmounts, loan_term \in LoanYears,
          interest_rate \in AnnualRates, rounding \in FloatRoundings :
           view' = [op |-> "show_loan_calculator",
                    loan_amount |-> loan_amount,
                    term_months |-> loan_term * 12,
                    interest_rate |-> interest_rate,
                    rounding |-> rounding,
                    result |-> loan_summary(loan_amount, loan_term,
                                            interest_rate, rounding)]
    /\ UNCHANGED <<financial_data, user_data, monthly_expenses, planner>>

\* "for month in range(total_months + 1)": the balances of the growth
\* chart for the months 0 to the given month, at the indices 1 to month + 1.
RECURSIVE growth_data(_, _, _, _)
growth_data(initial_investment, monthly_contribution, monthly_rate, month) ==
    IF month = 0 THEN <<Num(initial_investment)>>
    ELSE LET rows == growth_data(initial_investment, monthly_contribution,
                                 monthly_rate, month - 1)
         IN  Append(rows,
                    RMul(RAdd(rows[month], Num(monthly_contribution)),
                         RAdd(Num(1), monthly_rate)))

\* show_investment_calculator: "Calculate"
investment_summary(initial_investment, monthly_contribution, investment_period, expected_return) ==
    LET monthly_rate == RDiv(RDiv(Num(expected_return), Num(100)), Num(12))
        total_months == investment_period * 12
        growth == PyPow(RAdd(Num(1), monthly_rate), total_months)
        lump == RMul(Num(initial_investment), growth)
        annuity ==
            IF monthly_contribution > 0
            THEN PyDiv(RMul(Num(monthly_contribution), RSub(growth, Num(1))),
                       monthly_rate)
            ELSE Num(0)
    IN  IF IsErr(annuity) THEN annuity
        ELSE LET future_value == RAdd(lump, annuity)
                 total_contributions ==
                     initial_investment + (monthly_contribution * total_months)
             IN  [future_value |-> future_value,
                  total_contributions |-> Num(total_contributions),
                  total_return |-> RSub(future_value, Num(total_contributions)),
                  growth_data |->
                      growth_data(initial_investment, monthly_contribution,
                                  monthly_rate, total_months)]

ShowInvestmentCalculator ==
    /\ \E initial_investment \in InitialInvestments,
          monthly_contribution \in MonthlyContributions,
          investment_period \in InvestmentYears,
          expected_return \in AnnualRates :
           view' = [op |-> "show_investment_calculator",
                    initial_investment |-> initial_investment,
                    monthly_contribution |-> monthly_contribution,
                    total_months |-> investment_period * 12,
                    expected_return |-> expected_return,
                    result |-> investment_summary(initial_investment,
                                   monthly_contribution, investment_period,
                                   expected_return)]
    /\ UNCHANGED <<financial_data, user_data, monthly_expenses, planner>>

\* FinancialAI: the fallback simulations.  The 'analysis' sentence and the
\* constant labels of each result are left out; the metrics are the numbers
\* before they are formatted to two decimals.
simulate_expense_reduction_fallback(parameters) ==
    LET reduction_percentage == Get(parameters, "reduction_percentage", 0)
    IN  [scenario |-> "expense_reduction",
         type |-> Get(parameters, "expense_type", "Unknown"),
         reduction |-> reduction_percentage,
         impact |-> "positive",
         metrics |->
             [monthly_savings |->
                  RMul(Num(1000), RDiv(Num(reduction_percentage), Num(100))),
              annual_impact |->
                  RMul(Num(12000), RDiv(Num(reduction_percentage), Num(100)))]]

simulate_income_increase_fallback(parameters) ==
    LET increase_percentage == Get(parameters, "increase_percentage", 0)
    IN  [scenario |-> "income_increase",
         increase |-> increase_percentage,
         impact |-> "positive",
         metrics |->
             [monthly_increase |->
                  RMul(Num(500), RDiv(Num(increase_percentage), Num(100))),
              annual_impact |->
                  RMul(Num(6000), RDiv(Num(increase_percentage), Num(100)))]]

simulate_loan_fallback(parameters) ==
    LET amount == Get(parameters, "amount", 0)
        term == Get(parameters, "term", 12)
        interest_rate == Get(parameters, "interest_rate", 0)
        monthly_payment ==
            loan_monthly_payment(Num(amount),
                RDiv(RDiv(Num(interest_rate), Num(100)), Num(12)), term)
    IN  IF IsErr(monthly_payment) THEN monthly_payment
        ELSE [scenario |-> "loan",
              amount |-> amount,
              term |-> term,
              interest_rate |-> interest_rate,
              purpose |-> Get(parameters, "purpose", "Unknown"),
              impact |-> "neutral",
              metrics |->
                  [monthly_payment |-> monthly_payment,
                   total_interest |->
                       RSub(RMul(monthly_payment, Num(term)), Num(amount))]]

simulate_investment_fallback(parameters) ==
    LET amount == Get(parameters, "amount", 0)
        duration == Get(parameters, "duration", 1)
        risk == Get(parameters, "risk_level", "Moderate")
        annual_return ==
            IF risk = "Low" THEN Pct(7)
            ELSE IF risk = "Moderate" THEN Pct(10)
            ELSE Pct(15)
        future_value ==
            RMul(Num(amount), PyPow(RAdd(Num(1), annual_return), duration))
    IN  [scenario |-> "investment",
         amount |-> amount,
         risk_level |-> risk,
         duration |-> duration,
         strategy |-> Get(parameters, "strategy", "Balanced"),
         impact |-> "positive",
         metrics |->
             [future_value |-> future_value,
              total_return |-> RSub(future_value, Num(amount)),
              annual_return |-> RMul(annual_return, Num(100))]]

_fallback_simulation(scenario_type, parameters) ==
    IF scenario_type = "expense_reduction"
    THEN simulate_expense_reduction_fallback(parameters)
    ELSE IF scenario_type = "income_increase"
    THEN simulate_income_increase_fallback(parameters)
    ELSE IF scenario_type = "loan"
    THEN simulate_loan_fallback(parameters)
    ELSE IF scenario_type = "investment"
    THEN simulate_investment_fallback(parameters)
    ELSE None

_fallback_recommendations ==
    [savings |-> <<"Increase your emergency fund",
                   "Consider a high-yield savings account">>,
     investments |-> <<"Diversify your portfolio", "Consider index funds">>,
     debt |-> <<"Pay off high-interest debt first",
                "Consider debt consolidation">>]

\* What the API call and json.loads do inside the try blocks.
AIResponse == [analysis |-> "text"]
AIOutcomes ==
    {[kind |-> "api_error"], [kind |-> "not_json"],
     [kind |-> "json", response |-> AIResponse]}

\* An exception of the fallback raised in the handler of JSONDecodeError is
\* caught by "except Exception", whose handler runs the fallback again and
\* raises again: either way the caller gets what the fallback gives.
simulate_scenario(data, scenario_type, parameters, outcome) ==
    IF outcome.kind = "json"
    THEN outcome.response
    ELSE _fallback_simulation(scenario_type, parameters)

generate_recommendations(data, outcome) ==
    IF outcome.kind = "json"
    THEN outcome.response
    ELSE _fallback_recommendations

\* Dictionaries: a record restricted to some of its keys.
Restrict(f, K) == [k \in K |-> f[k]]

ScenarioTypes ==
    {"expense_reduction", "income_increase", "loan", "investment", "retirement"}

ParametersOf(scenario_type) ==
    LET Full ==
            IF scenario_type = "expense_reduction"
            THEN [expense_type : {"Dining"}, reduction_percentage : {10}]
            ELSE IF scenario_type = "income_increase"
            THEN [increase_percentage : {0, 10}]
            ELSE IF scenario_type = "loan"
            THEN [amount : LoanAmounts, term : {1, 12},
                  interest_rate : AnnualRates]
            ELSE IF scenario_type = "investment"
            THEN [amount : LoanAmounts, duration : {1, 2},
                  risk_level : {"Low", "Moderate", "High"}]
            ELSE [amount : LoanAmounts]
    IN  {Restrict(f, K) : f \in Full,
                          K \in SUBSET (DOMAIN (CHOOSE g \in Full : TRUE))}

AIUserData == {[income |-> 1000, savings |-> 500, debt |-> 0]}

AnalyzeFinancialHealth ==
    /\ \E data \in AIUserData, outcome \in
              {[kind |-> "api_error"], [kind |-> "not_json"]}
              \cup {[kind |-> "json", response_data |-> r] : r \in HealthResponses} :
           view' = [op |-> "analyze_financial_health",
                    delegate |-> outcome.kind,
                    result |-> analyze_financial_health(data, outcome)]
    /\ UNCHANGED <<financial_data, user_data, monthly_expenses, planner>>

SimulateScenario ==
    /\ \E data \in AIUserData, scenario_type \in ScenarioTypes,
          outcome \in AIOutcomes :
         \E parameters \in ParametersOf(scenario_type) :
           view' = [op |-> "simulate_scenario",
                    scenario_type |-> scenario_type,
                    parameters |-> parameters,
                    delegate |-> outcome.kind,
                    result |-> simulate_scenario(data, scenario_type,
                                                 parameters, outcome)]
    /\ UNCHANGED <<financial_data, user_data, monthly_expenses, planner>>

GenerateRecommendations ==
    /\ \E data \in AIUserData, outcome \in AIOutcomes :
           view' = [op |-> "generate_recommendations",
                    delegate |-> outcome.kind,
                    result |-> generate_recommendations(data, outcome)]
    /\ UNCHANGED <<financial_data, user_data, monthly_expenses, planner>>

InitTools ==
    /\ financial_data = None
    /\ FreshInputs
    /\ view = NoView
    /\ planner = PlannerIdle

NextTools ==
    \/ ShowLoanCalculator
    \/ ShowInvestmentCalculator
    \/ AnalyzeFinancialHealth
    \/ SimulateScenario
    \/ GenerateRecommendations

SpecTools == InitTools /\ [][NextTools]_vars

(***************************************************************************)
(* Report Builder: DataProcessor.generate_financial_analysis               *)
(* (src/data_processor.py)                                                 *)
(***************************************************************************)
\* The month names of the "Select Month" box, in calendar order, and the
\* years of the "Select Year" box.
months ==
    <<"January", "February", "March", "April", "May", "June",
      "July", "August", "September", "October", "November", "December">>
Years == {2023, 2024}

\* month_key = f"{selected_year}-{selected_month}"
month_key(selected_year, selected_month) ==
    ToString(selected_year) \o "-" \o selected_month

\* The year and month a period key was made of.
PeriodOfKey(key) ==
    CHOOSE p \in [year : Years, month : {months[i] : i \in DOMAIN months}] :
        month_key(p.year, p.month) = key

IndexOf(seq, x) == CHOOSE i \in DOMAIN seq : seq[i] = x

\* The month names in the order of Python's string comparison.
AlphabeticalMonths ==
    <<"April", "August", "December", "February", "January", "July",
      "June", "March", "May", "November", "October", "September">>

\* key1 < key2 as Python compares the two strings: the four digits of the
\* year first, then the month names letter by letter.
KeyLess(key1, key2) ==
    LET p1 == PeriodOfKey(key1)
        p2 == PeriodOfKey(key2)
    IN  \/ p1.year < p2.year
        \/ /\ p1.year = p2.year
           /\ IndexOf(AlphabeticalMonths, p1.month)
                  < IndexOf(AlphabeticalMonths, p2.month)

\* A period whose value is a mapping (and not a list or a number).
IsMapping(period) == "amounts" \in DOMAIN period

\* The exceptions the report and the import can raise, as values.
AttributeError == [err |-> "AttributeError"]
KeyError == [err |-> "KeyError"]

\* {}: the empty dict.
EmptyDict == <<>>
\* "not x" for x a dict or None, and for the items of monthly_expenses.
IsFalsy(x) == IsNone(x) \/ DOMAIN x = {}
NoItems(items) == items = <<>>

RECURSIVE AddCategories(_, _, _)
\* for category, amount in expenses.items(): category_totals[category] +=
\* amount, a new category going to the end of category_totals.
AddCategories(category_totals, amounts, order) ==
    IF order = <<>> THEN category_totals
    ELSE LET category == Head(order)
             seen == \E i \in DOMAIN category_totals :
                         category_totals[i].category = category
             added ==
                 IF seen
                 THEN [i \in DOMAIN category_totals |->
                          IF category_totals[i].category = category
                          THEN [category_totals[i] EXCEPT
                                   !.amount = @ + amounts[category]]
                          ELSE category_totals[i]]
                 ELSE Append(category_totals,
                             [category |-> category, amount |-> amounts[category]])
         IN  AddCategories(added, amounts, Tail(order))

RECURSIVE CategoryTotals(_, _)
CategoryTotals(category_totals, expenses) ==
    IF expenses = <<>> THEN category_totals
    ELSE CategoryTotals(
             AddCategories(category_totals, Head(expenses).amounts,
                           Head(expenses).order),
             Tail(expenses))

\* total_expenses_by_month[month_key] = sum(expenses.values())
TotalExpensesByMonth(expenses) ==
    [i \in DOMAIN expenses |->
        [key |-> expenses[i].key,
         total |-> SumCategories(expenses[i].amounts, DOMAIN expenses[i].amounts)]]

\* sorted(): the elements of xs in the order Before, equal elements keeping
\* the order they have in xs (the sort is stable, with reverse=True as well).
SortedBy(xs, Before(_, _)) ==
    LET rank(i) ==
            1 + Cardinality({j \in DOMAIN xs :
                    \/ Before(xs[j], xs[i])
                    \/ ~Before(xs[i], xs[j]) /\ j < i})
    IN  [k \in DOMAIN xs |-> xs[CHOOSE i \in DOMAIN xs : rank(i) = k]]

\* sorted(category_totals.items(), key=lambda x: x[1], reverse=True)
LargerAmount(a, b) == a.amount > b.amount
SmallerAmount(a, b) == a.amount < b.amount
sorted_categories_ascending(category_totals) ==
    SortedBy(category_totals, SmallerAmount)
sorted_categories(category_totals) == SortedBy(category_totals, LargerAmount)

\* sorted(total_expenses_by_month.items())
EarlierKey(a, b) == KeyLess(a.key, b.key)
sorted_months(total_expenses_by_month) ==
    SortedBy(total_expenses_by_month, EarlierKey)

\* sorted_categories[:5]
FirstN(seq, n) == SubSeq(seq, 1, IF Len(seq) < n THEN Len(seq) ELSE n)

monthly_trends(sorted) ==
    [j \in 1..(Len(sorted) - 1) |->
        LET prev == sorted[j]
            curr == sorted[j + 1]
            change == curr.total - prev.total
        IN  [from_month |-> prev.key,
             to_month |-> curr.key,
             change |-> change,
             change_percent |->
                 IF prev.total > 0
                 THEN RMul(Norm(change, prev.total), Num(100))
                 ELSE Num(0)]]

\* The recommendations, each with its title and priority (the description
\* is a sentence fixed by the title).
_generate_recommendations(income, savings, debt, avg_expense, rate, dti, category_totals) ==
    LET ranked == sorted_categories(category_totals)
    IN  [savings |->
             Tag(RLt(rate, Pct(20)),
                 [title |-> "Increase Savings Rate", priority |-> "high"])
             \o Tag(savings < income * 3,
                    [title |-> "Build Emergency Fund", priority |-> "medium"]),
         debt |->
             Tag(RGt(dti, Pct(40)),
                 [title |-> "Reduce Debt", priority |-> "high"]),
         expenses |->
             Tag(RGt(avg_expense, RMul(Num(income), Pct(80))),
                 [title |-> "Reduce Expenses", priority |-> "high"])
             \o Tag(ranked # <<>>,
                    [title |-> "Review " \o ranked[1].category \o " Expenses",
                     priority |-> "medium"]),
         income |->
             Tag(RLt(Num(income), RMul(avg_expense, Norm(3, 2))),
                 [title |-> "Increase Income", priority |-> "medium"])]

RECURSIVE SumTotals(_)
\* sum(total_expenses_by_month.values())
SumTotals(total_expenses_by_month) ==
    IF total_expenses_by_month = <<>> THEN 0
    ELSE Head(total_expenses_by_month).total
         + SumTotals(Tail(total_expenses_by_month))

\* The average over the months that have expenses.
avg_of_months_with_expenses(total_expenses_by_month) ==
    LET spent == SelectSeq(total_expenses_by_month, LAMBDA m : m.total > 0)
    IN  IF spent = <<>> THEN Num(0) ELSE Norm(SumTotals(spent), Len(spent))

\* sum(total_expenses_by_month.values()) / len(total_expenses_by_month)
\* if total_expenses_by_month else 0
avg_monthly_expense(total_expenses_by_month) ==
    IF total_expenses_by_month = <<>> THEN Num(0)
    ELSE Norm(SumTotals(total_expenses_by_month), Len(total_expenses_by_month))

generate_financial_analysis(ud, expenses) ==
    IF IsFalsy(ud) \/ NoItems(expenses) THEN EmptyDict
    ELSE IF \E i \in DOMAIN expenses : ~IsMapping(expenses[i])
    THEN AttributeError
    ELSE
    LET total_income == Get(ud, "income", 0)
        total_savings == Get(ud, "savings", 0)
        total_debt == Get(ud, "debt", 0)
        total_expenses_by_month == TotalExpensesByMonth(expenses)
        category_totals == CategoryTotals(<<>>, expenses)
        avg_expense == avg_monthly_expense(total_expenses_by_month)
        rate ==
            IF total_income > 0
            THEN RDiv(RSub(Num(total_income), avg_expense), Num(total_income))
            ELSE Num(0)
        dti ==
            IF total_income > 0 THEN Norm(total_debt, total_income) ELSE Num(0)
    IN  [summary |->
             [total_income |-> total_income,
              total_savings |-> total_savings,
              total_debt |-> total_debt,
              avg_monthly_expense |-> avg_expense,
              savings_rate |-> rate,
              debt_to_income_ratio |-> dti],
         expenses |->
             [total_by_month |-> total_expenses_by_month,
              category_totals |-> category_totals,
              top_categories |-> FirstN(sorted_categories(category_totals), 5)],
         trends |->
             [monthly_trends |->
                  monthly_trends(sorted_months(total_expenses_by_month))],
         recommendations |->
             _generate_recommendations(total_income, total_savings, total_debt,
                 avg_expense, rate, dti, category_totals)]

(***************************************************************************)
(* The persisted format: json.dumps and json.load                          *)
(*                                                                         *)
(* A JSON text is kept as its syntax tree: an object is [object |-> the    *)
(* sequence of its members [name, value] in the order of the text], a      *)
(* number is [number |-> n], an array is [array |-> ...], a string is      *)
(* [string |-> s].  The member names of an object are distinct.            *)
(***************************************************************************)
\* A dict of numbers with the order of its keys, as a JSON object.
dumps_dict(amounts, order) ==
    [object |->
        [i \in DOMAIN order |->
            [name |-> order[i], value |-> [number |-> amounts[order[i]]]]]]

\* A JSON object of numbers as a dict, and the order of its keys.
loads_dict(json) ==
    [k \in {json.object[i].name : i \in DOMAIN json.object} |->
        (json.object[IndexOf([i \in DOMAIN json.object |-> json.object[i].name], k)]
            .value).number]
keys_of(json) == [i \in DOMAIN json.object |-> json.object[i].name]

\* monthly_expenses written with sort_keys=True: the periods in the order
\* of their keys.
dumps_expenses_sort_keys(expenses) ==
    LET sorted == SortedBy(expenses, EarlierKey)
    IN  [object |->
            [i \in DOMAIN sorted |->
                [name |-> sorted[i].key,
                 value |-> dumps_dict(sorted[i].amounts, sorted[i].order)]]]

\* monthly_expenses as a JSON object: one member per period, in the order
\* of the dict.
dumps_expenses(expenses) ==
    [object |->
        [i \in DOMAIN expenses |->
            [name |-> expenses[i].key,
             value |-> dumps_dict(expenses[i].amounts, expenses[i].order)]]]

\* A period that is a JSON object becomes a dict; any other JSON value
\* becomes the list, number or string it denotes.
loads_expenses(json) ==
    [i \in DOMAIN json.object |->
        LET member == json.object[i]
        IN  IF "object" \in DOMAIN member.value
            THEN [key |-> member.name,
                  amounts |-> loads_dict(member.value),
                  order |-> keys_of(member.value)]
            ELSE [key |-> member.name, value |-> member.value]]

\* The keys of user_data in the order show_basic_financial_info enters them.
BasicInfoKeys == <<"income", "savings", "debt">>
KeysIn(d, order) == SelectSeq(order, LAMBDA k : k \in DOMAIN d)

\* json.dumps(export_data, indent=4).  The analysis block is carried as the
\* value the report builder returned.
json_dumps(export_data) ==
    [object |->
        <<[name |-> "basic_info",
           value |-> dumps_dict(export_data.basic_info,
                                KeysIn(export_data.basic_info, BasicInfoKeys))],
          [name |-> "monthly_expenses",
           value |-> dumps_expenses(export_data.monthly_expenses)],
          [name |-> "financial_analysis",
           value |-> export_data.financial_analysis],
          [name |-> "export_date", value |-> [string |-> export_data.export_date]],
          [name |-> "version", value |-> [string |-> export_data.version]]>>]

\* import_data = json.load(uploaded_file): the top-level dict, member name
\* to JSON value.
json_load(uploaded_file) ==
    [k \in {uploaded_file.object[i].name : i \in DOMAIN uploaded_file.object} |->
        uploaded_file.object[
            IndexOf([i \in DOMAIN uploaded_file.object |->
                        uploaded_file.object[i].name], k)].value]

(***************************************************************************)
(* FinTwinApp.export_financial_data                                        *)
(***************************************************************************)
ExportDates == {"2024-03-01 09:00:00"}

\* The "Top Expense Categories" metrics divide each amount by total_income.
ExportInsightsRaise(financial_analysis) ==
    /\ ~IsFalsy(financial_analysis)
    /\ financial_analysis.expenses.top_categories # <<>>
    /\ financial_analysis.summary.total_income = 0

ExportView(export_date) ==
    IF IsFalsy(user_data)
    THEN [op |-> "export_financial_data",
          shown |-> "Please input your basic financial information first!"]
    ELSE IF NoItems(monthly_expenses)
    THEN [op |-> "export_financial_data",
          shown |-> "Please add some monthly expenses first!"]
    ELSE LET financial_analysis ==
                 generate_financial_analysis(user_data, monthly_expenses)
         IN  IF IsErr(financial_analysis)
             THEN [op |-> "export_financial_data", shown |-> "exception",
                   raised |-> financial_analysis]
             ELSE [op |-> "export_financial_data",
                   shown |-> "Financial data exported successfully!",
                   exported |-> [user_data |-> user_data,
                                 monthly_expenses |-> monthly_expenses],
                   financial_analysis |-> financial_analysis,
                   json_data |->
                       json_dumps([basic_info |-> user_data,
                                   monthly_expenses |-> monthly_expenses,
                                   financial_analysis |-> financial_analysis,
                                   export_date |-> export_date,
                                   version |-> "1.0"]),
                   raised |-> IF ExportInsightsRaise(financial_analysis)
                              THEN ZeroDivisionError ELSE None]

ExportFinancialData ==
    /\ \E export_date \in ExportDates : view' = ExportView(export_date)
    /\ UNCHANGED <<financial_data, user_data, monthly_expenses, planner>>

(***************************************************************************)
(* Specification of the report over crafted sessions                       *)
(***************************************************************************)
MaxReportPeriods == 2

\* The first six entries of st.session_state.expense_categories.
ReportCategories ==
    <<"Rent/Mortgage", "Utilities", "Groceries", "Transportation",
      "Entertainment", "Healthcare">>

Reverse(seq) == [i \in DOMAIN seq |-> seq[Len(seq) + 1 - i]]

\* A dict given by its keys in order and the amounts in the same order.
DictOf(order, values) ==
    [amounts |-> [c \in {order[i] : i \in DOMAIN order} |->
                     values[IndexOf(order, c)]],
     order |-> order]

\* The period contents of the report's sessions: no category, zero
\* amounts, two categories with equal and with different amounts in both
\* orders of the keys, six categories with different amounts, six with
\* equal amounts in both orders.
ReportDicts ==
    {DictOf(<<>>, <<>>),
     DictOf(SubSeq(ReportCategories, 1, 2), <<0, 0>>),
     DictOf(SubSeq(ReportCategories, 1, 2), <<500, 500>>),
     DictOf(Reverse(SubSeq(ReportCategories, 1, 2)), <<500, 500>>),
     DictOf(SubSeq(ReportCategories, 1, 2), <<400, 500>>),
     DictOf(ReportCategories, <<600, 500, 400, 300, 200, 100>>),
     DictOf(ReportCategories, <<500, 300, 300, 300, 300, 300>>),
     DictOf(Reverse(ReportCategories), <<300, 300, 300, 300, 300, 500>>)}

ReportPeriodKeys ==
    {month_key(2023, "December"), month_key(2024, "January"),
     month_key(2024, "February")}

ReportExpenses ==
    UNION {
        {[i \in 1..k |-> [key |-> keys[i], amounts |-> dicts[i].amounts,
                          order |-> dicts[i].order]] :
            keys \in {ks \in [1..k -> ReportPeriodKeys] :
                         \A i, j \in 1..k : i # j => ks[i] # ks[j]},
            dicts \in [1..k -> ReportDicts]} : k \in 0..MaxReportPeriods}

ReportUserData ==
    {None,
     [income |-> 0, savings |-> 0, debt |-> 1000],
     [income |-> 1000, savings |-> 500, debt |-> 300],
     [income |-> 1000, savings |-> 3000, debt |-> 600]}

InitReport ==
    /\ financial_data = None
    /\ user_data \in ReportUserData
    /\ monthly_expenses \in ReportExpenses
    /\ view = NoView
    /\ planner = PlannerIdle

NextReport == ExportFinancialData

SpecReport == InitReport /\ [][NextReport]_vars

(***************************************************************************)
(* FinTwinApp.import_financial_data                                        *)
(***************************************************************************)
JSONDecodeError == [err |-> "JSONDecodeError"]
TypeError == [err |-> "TypeError"]

\* json.load raises on a text that is not a JSON document.
IsJSON(uploaded_file) == "object" \in DOMAIN uploaded_file

\* The file the download button of the last export offers.
DownloadedFiles ==
    IF view.op = "export_financial_data" /\ "json_data" \in DOMAIN view
    THEN {view.json_data} ELSE {}

\* What the "Imported Data Summary" block raises; None when it is
\* displayed to its end.
ImportSummaryRaises(import_data) ==
    LET expenses == loads_expenses(import_data["monthly_expenses"])
    IN  IF \E i \in DOMAIN expenses : ~IsMapping(expenses[i])
        THEN AttributeError
        ELSE IF "financial_analysis" \notin DOMAIN import_data THEN None
        ELSE LET financial_analysis == import_data["financial_analysis"]
             IN  IF IsFalsy(financial_analysis) THEN KeyError
                 ELSE IF "summary" \notin DOMAIN financial_analysis
                 THEN KeyError
                 ELSE IF "expenses" \notin DOMAIN financial_analysis
                 THEN KeyError
                 ELSE IF /\ financial_analysis.expenses.top_categories # <<>>
                         /\ financial_analysis.summary.total_income = 0
                 THEN ZeroDivisionError
                 ELSE IF "recommendations" \notin DOMAIN financial_analysis
                 THEN KeyError
                 ELSE None

\* The session as the handler finds it.
SessionState ==
    [user_data |-> user_data, monthly_expenses |-> monthly_expenses,
     financial_data |-> financial_data]

ImportView(uploaded_file, messages, raised) ==
    [op |-> "import_financial_data", uploaded_file |-> uploaded_file,
     downloaded |-> IF uploaded_file \in DownloadedFiles THEN view ELSE NoView,
     before |-> SessionState, messages |-> messages, raised |-> raised]

ImportFinancialData(uploaded_file) ==
    IF ~IsJSON(uploaded_file)
    THEN /\ view' = ImportView(uploaded_file, <<"Error importing data">>,
                               JSONDecodeError)
         /\ UNCHANGED <<financial_data, user_data, monthly_expenses, planner>>
    ELSE LET import_data == json_load(uploaded_file)
         IN  IF \/ "basic_info" \notin DOMAIN import_data
                \/ "monthly_expenses" \notin DOMAIN import_data
             THEN /\ view' = ImportView(uploaded_file,
                                 <<"Invalid data format">>, None)
                  /\ UNCHANGED <<financial_data, user_data, monthly_expenses,
                                 planner>>
             ELSE LET raised == ImportSummaryRaises(import_data)
                  IN  /\ user_data' = loads_dict(import_data["basic_info"])
                      /\ monthly_expenses' =
                             loads_expenses(import_data["monthly_expenses"])
                      /\ financial_data' =
                             [basic_info |-> user_data',
                              monthly_expenses |-> monthly_expenses',
                              analysis |-> Get(import_data,
                                               "financial_analysis", EmptyDict)]
                      /\ view' = ImportView(uploaded_file,
                             <<"Financial data imported successfully!">>
                             \o (IF IsErr(raised)
                                 THEN <<"Error importing data">> ELSE <<>>),
                             raised)
                      /\ UNCHANGED planner

(***************************************************************************)
(* FinTwinApp.clear_financial_data                                         *)
(***************************************************************************)
ClearFinancialData(confirmed) ==
    IF confirmed
    THEN /\ user_data' = None
         /\ monthly_expenses' = <<>>
         /\ financial_data' = None
         /\ view' = [op |-> "clear_financial_data",
                     shown |-> "All financial data has been cleared."]
         /\ UNCHANGED planner
    ELSE /\ view' = [op |-> "clear_financial_data", shown |-> "checkbox"]
         /\ UNCHANGED <<financial_data, user_data, monthly_expenses, planner>>

(***************************************************************************)
(* FinTwinApp.show_basic_financial_info and show_monthly_expenses          *)
(***************************************************************************)
SaveBasicInformation(income, savings, debt) ==
    /\ user_data' = [income |-> income, savings |-> savings,
                     debt |-> debt]
    /\ view' = [op |-> "show_basic_financial_info",
                shown |-> "Basic financial information saved successfully!"]
    /\ UNCHANGED <<financial_data, monthly_expenses, planner>>

HasPeriod(items, key) == \E i \in DOMAIN items : items[i].key = key
PeriodIndex(items, key) == CHOOSE i \in DOMAIN items : items[i].key = key

\* {category: 0.0 for category in st.session_state.expense_categories}
ZeroExpenses(key) ==
    [key |-> key, amounts |-> [c \in Categories |-> 0],
     order |-> expense_categories]

\* One run of the page for the selected month: the entry of the month is
\* created when it is missing, the form reads the entry's amounts, and a
\* submitted form replaces the entry.  Both assignments are item assignments
\* on the dict st.session_state.monthly_expenses, and import_financial_data
\* stores one dict object as st.session_state.monthly_expenses and as
\* financial_data["monthly_expenses"]: while financial_data is set, which only
\* the import does, the page changes that dict through either name.
ShowMonthlyExpenses(selected_year, selected_month, submitted, expense_data) ==
    LET key == month_key(selected_year, selected_month)
        initialized == IF HasPeriod(monthly_expenses, key)
                       THEN monthly_expenses
                       ELSE Append(monthly_expenses, ZeroExpenses(key))
        i == PeriodIndex(initialized, key)
        raised == IF ~IsMapping(initialized[i]) THEN TypeError
                  ELSE IF \E c \in Categories :
                              c \notin DOMAIN initialized[i].amounts
                  THEN KeyError
                  ELSE None
    IN  /\ monthly_expenses' =
               IF ~IsErr(raised) /\ submitted
               THEN [initialized EXCEPT
                        ![i] = [key |-> key, amounts |-> expense_data,
                                order |-> expense_categories]]
               ELSE initialized
        /\ view' = [op |-> "show_monthly_expenses", month_key |-> key,
                    saved |-> ~IsErr(raised) /\ submitted, raised |-> raised]
        /\ financial_data' =
               IF financial_data = None THEN None
               ELSE [financial_data EXCEPT
                        !.monthly_expenses = monthly_expenses']
        /\ UNCHANGED <<user_data, planner>>

(***************************************************************************)
(* Specification of a session of the data-input page                       *)
(***************************************************************************)
SessionIncomes == {0, 1000}
SelectedPeriods == {<<2024, "February">>, <<2024, "January">>}
\* The amounts submitted with the form, by category.
ExpenseData ==
    {[c \in Categories |-> IF c = expense_categories[1] THEN 500 ELSE utilities] :
        utilities \in {0, 500}}

JsonNumber(n) == [number |-> n]
JsonBasicInfo(income, savings, debt) ==
    [name |-> "basic_info",
     value |-> dumps_dict([income |-> income, savings |-> savings,
                           debt |-> debt], BasicInfoKeys)]
JsonExpenses(value) ==
    [name |-> "monthly_expenses",
     value |-> [object |-> <<[name |-> month_key(2024, "January"),
                              value |-> value]>>]]
JsonAmounts(rent, utilities) ==
    [object |-> <<[name |-> expense_categories[1], value |-> JsonNumber(rent)],
                  [name |-> expense_categories[2],
                   value |-> JsonNumber(utilities)]>>]

\* The files uploaded: a well-formed file without an analysis block, a
\* file without monthly_expenses, a file with a negative income, a file
\* with a negative amount, a file whose period is a list, a file whose
\* analysis block has only trends, and a text that is not JSON.
UploadedFiles ==
    {[object |-> <<JsonBasicInfo(1000, 500, 300),
                   JsonExpenses(JsonAmounts(400, 500))>>],
     [object |-> <<JsonBasicInfo(1000, 500, 300)>>],
     [object |-> <<JsonBasicInfo(-1000, 500, 300),
                   JsonExpenses(JsonAmounts(400, 500))>>],
     [object |-> <<JsonBasicInfo(1000, 500, 300),
                   JsonExpenses(JsonAmounts(400, -500))>>],
     [object |-> <<JsonBasicInfo(1000, 500, 300),
                   JsonExpenses([array |-> <<JsonNumber(400)>>])>>],
     [object |-> <<JsonBasicInfo(1000, 500, 300),
                   JsonExpenses(JsonAmounts(400, 500)),
                   [name |-> "financial_analysis",
                    value |-> [trends |-> [monthly_trends |-> <<>>]]]>>],
     [text |-> "income,savings,debt"]}

InitSession ==
    /\ financial_data = None
    /\ FreshInputs
    /\ view = NoView
    /\ planner = PlannerIdle

NextSession ==
    \/ \E income \in SessionIncomes :
           SaveBasicInformation(income, 500, 300)
    \/ \E period \in SelectedPeriods, submitted \in BOOLEAN,
          expense_data \in ExpenseData :
           ShowMonthlyExpenses(period[1], period[2], submitted, expense_data)
    \/ ExportFinancialData
    \/ \E uploaded_file \in UploadedFiles \cup DownloadedFiles :
           ImportFinancialData(uploaded_file)
    \/ \E confirmed \in BOOLEAN : ClearFinancialData(confirmed)

SpecSession == InitSession /\ [][NextSession]_vars

(***************************************************************************)
(* Specification of the scoring table over a grid of ratio values          *)
(***************************************************************************)
SavingsRateValues == {Pct(-50), Pct(4), Pct(5), Pct(10), Pct(15), Pct(20)}
EmergencyFundValues == {Num(0), Norm(1, 2), Num(1), Num(3), Num(6)}
DebtToIncomeValues == {Num(0), Pct(20), Pct(30), Pct(40), Pct(50), Inf}
ExpenseRatioValues == {Pct(49), Pct(50), Pct(70), Pct(80), Num(2)}

RatioGrid ==
    [sr : SavingsRateValues, ef : EmergencyFundValues,
     dti : DebtToIncomeValues, er : ExpenseRatioValues]

ScoreView(ratios, prev) ==
    [op |-> "score_of_ratios",
     ratios |-> ratios,
     score |-> ScoreOfRatios(ratios.sr, ratios.ef, ratios.dti, ratios.er),
     prev_ratios |-> prev.ratios,
     prev_score |-> prev.score]

InitScore ==
    /\ financial_data = None
    /\ FreshInputs
    /\ planner = PlannerIdle
    /\ \E r \in RatioGrid :
           view = ScoreView(r, [ratios |-> r,
                                score |-> ScoreOfRatios(r.sr, r.ef, r.dti, r.er)])

\* Score again with one ratio changed and the other three held fixed.
VarySavingsRate ==
    /\ \E v \in SavingsRateValues :
           view' = ScoreView([view.ratios EXCEPT !.sr = v], view)
    /\ UNCHANGED <<financial_data, user_data, monthly_expenses, planner>>

VaryEmergencyFund ==
    /\ \E v \in EmergencyFundValues :
           view' = ScoreView([view.ratios EXCEPT !.ef = v], view)
    /\ UNCHANGED <<financial_data, user_data, monthly_expenses, planner>>

VaryDebtToIncome ==
    /\ \E v \in DebtToIncomeValues :
           view' = ScoreView([view.ratios EXCEPT !.dti = v], view)
    /\ UNCHANGED <<financial_data, user_data, monthly_expenses, planner>>

VaryExpenseRatio ==
    /\ \E v \in ExpenseRatioValues :
           view' = ScoreView([view.ratios EXCEPT !.er = v], view)
    /\ UNCHANGED <<financial_data, user_data, monthly_expenses, planner>>

NextScore ==
    \/ VarySavingsRate
    \/ VaryEmergencyFund
    \/ VaryDebtToIncome
    \/ VaryExpenseRatio

SpecScore == InitScore /\ [][NextScore]_vars

(***************************************************************************)
(* Specification of the Classifier over analyses of every shape            *)
(***************************************************************************)
\* The analysis dicts passed in: the delegate's fallback, and analyses
\* that carry lists of their own, with tags of the rules and with others.
ClassifierAnalyses ==
    {_fallback_analysis(None),
     [analysis |-> "text", strengths |-> <<"Positive savings balance">>],
     [analysis |-> "text", weaknesses |-> <<"Low savings rate (<10%)">>],
     [analysis |-> "text", strengths |-> <<"Diversified income">>,
      weaknesses |-> <<"No budget">>]}

CalculateStrengthsWeaknesses ==
    /\ ~IsNone(financial_data)
    /\ \E analysis \in ClassifierAnalyses :
           view' = [op |-> "_calculate_strengths_weaknesses",
                    analysis |-> analysis,
                    returned |->
                        _calculate_strengths_weaknesses(financial_data, analysis)]
    /\ UNCHANGED <<financial_data, user_data, monthly_expenses, planner>>

InitClassifier ==
    /\ financial_data \in Snapshots
    /\ ImportedInputs
    /\ view = NoView
    /\ planner = PlannerIdle

NextClassifier == CalculateStrengthsWeaknesses

SpecClassifier == InitClassifier /\ [][NextClassifier]_vars

(***************************************************************************)
(* Specification of the two debt analyses                                  *)
(***************************************************************************)
\* Imported snapshots, and dicts with the top-level keys the planner reads.
DebtSnapshots ==
    {s \in Snapshots :
        s.basic_info.savings = 500 /\ s.basic_info.debt \in {0, 2400}}
DebtPlannerData == {d \in PlannerData : Len(d.monthly_expenses) <= 1}

InitDebt ==
    /\ financial_data \in DebtSnapshots \cup DebtPlannerData \cup {None}
    /\ user_data = DictGet(financial_data, "basic_info", None)
    /\ monthly_expenses = DictGet(financial_data, "monthly_expenses", <<>>)
    /\ view = NoView
    /\ planner = PlannerIdle

NextDebt ==
    \/ ShowFinancialHealth
    \/ PlannerOpen
    \/ PlannerLoopStep
    \/ PlannerLoopExit

SpecDebt == InitDebt /\ [][NextDebt]_vars

(***************************************************************************)
(* Claims about the Health Scorer                                          *)
(***************************************************************************)
HealthShown ==
    /\ view.op = "show_financial_health"
    /\ view.shown = "Financial Health Score"

Has(seq, x) == \E i \in DOMAIN seq : seq[i] = x

\* The Metrics Engine's debt-to-income ratio as section 4.1 defines it:
\* debt / (income x 12), and +infinity when income = 0.
MetricsDebtToIncome(fd) ==
    IF fd.basic_info.income > 0
    THEN Norm(fd.basic_info.debt, fd.basic_info.income * 12)
    ELSE Inf

\* The four bucket tables as section 4.2 states them.
TableSavingsRate(sr) ==
    CASE RGe(sr, Pct(20)) -> 30
      [] RLt(sr, Pct(20)) /\ RGe(sr, Pct(15)) -> 25
      [] RLt(sr, Pct(15)) /\ RGe(sr, Pct(10)) -> 20
      [] RLt(sr, Pct(10)) /\ RGe(sr, Pct(5)) -> 15
      [] RLt(sr, Pct(5)) -> 10

TableEmergencyFund(ef) ==
    CASE RGe(ef, Num(6)) -> 25
      [] RLt(ef, Num(6)) /\ RGe(ef, Num(3)) -> 20
      [] RLt(ef, Num(3)) /\ RGe(ef, Num(1)) -> 15
      [] RLt(ef, Num(1)) -> 10

TableDebtToIncome(dti) ==
    CASE RLt(dti, Pct(20)) -> 25
      [] RGe(dti, Pct(20)) /\ RLt(dti, Pct(30)) -> 20
      [] RGe(dti, Pct(30)) /\ RLt(dti, Pct(40)) -> 15
      [] RGe(dti, Pct(40)) /\ RLt(dti, Pct(50)) -> 10
      [] RGe(dti, Pct(50)) -> 5

TableExpenseRatio(er) ==
    CASE RLt(er, Pct(50)) -> 20
      [] RGe(er, Pct(50)) /\ RLt(er, Pct(70)) -> 15
      [] RGe(er, Pct(70)) /\ RLt(er, Pct(80)) -> 10
      [] RGe(er, Pct(80)) -> 5

TableSum(fd) ==
    TableSavingsRate(savings_rate(fd))
    + TableEmergencyFund(emergency_fund_months(fd))
    + TableDebtToIncome(MetricsDebtToIncome(fd))
    + TableExpenseRatio(expense_ratio(fd))

\* C1: for every snapshot the health score shown is exactly the sum of the
\* four bucketed point values of its savings rate, emergency-fund months,
\* debt-to-income ratio and expense-to-income ratio.
C1_ScoreIsSumOfBuckets ==
    HealthShown => view.health_score = Num(TableSum(financial_data))

\* C1, for income > 0 only: what the code does satisfy.
C1_SumOfBucketsPositiveIncome ==
    (HealthShown /\ financial_data.basic_info.income > 0)
        => view.health_score = Num(TableSum(financial_data))

\* C2: with three ratios held fixed the score does not decrease when the
\* savings rate or the emergency-fund months grow, does not increase when
\* the debt-to-income or the expense-to-income ratio grows, and it is always
\* within [0, 100].
C2_ScoreMonotoneAndBounded ==
    view.op = "score_of_ratios" =>
        LET r == view.ratios
            p == view.prev_ratios
            up == (RGe(r.sr, p.sr) /\ r.ef = p.ef /\ r.dti = p.dti /\ r.er = p.er)
                  \/ (RGe(r.ef, p.ef) /\ r.sr = p.sr /\ r.dti = p.dti /\ r.er = p.er)
            down == (RGe(r.dti, p.dti) /\ r.sr = p.sr /\ r.ef = p.ef /\ r.er = p.er)
                    \/ (RGe(r.er, p.er) /\ r.sr = p.sr /\ r.ef = p.ef /\ r.dti = p.dti)
        IN  /\ up => RGe(view.score, view.prev_score)
            /\ down => RLe(view.score, view.prev_score)
            /\ RGe(view.score, Num(0))
            /\ RLe(view.score, Num(100))

\* C2 witness: a larger savings rate with the other ratios fixed has raised
\* the score.
C2_Witness ==
    /\ view.op = "score_of_ratios"
    /\ RGt(view.ratios.sr, view.prev_ratios.sr)
    /\ view.ratios.ef = view.prev_ratios.ef
    /\ view.ratios.dti = view.prev_ratios.dti
    /\ view.ratios.er = view.prev_ratios.er
    /\ RGt(view.score, view.prev_score)

\* The tier of a score (>= 70 Low, >= 40 Medium, else High) and of a label.
TierOfScore(score) ==
    IF RGe(score, Num(70)) THEN "Low"
    ELSE IF RGe(score, Num(40)) THEN "Medium"
    ELSE "High"

TierOfLabel(label) ==
    CASE label = "Low" -> "Low"
      [] label \in {"Medium", "Moderate"} -> "Medium"
      [] label = "High" -> "High"
      [] OTHER -> "Unknown"

\* C3: when the delegate call fails, the risk level shown with the score is
\* the tier of that score.
C3_RiskTierOfScore ==
    (HealthShown /\ view.delegate \in {"api_error", "not_json"})
        => TierOfLabel(view.risk_level) = TierOfScore(view.health_score)

\* C4: with income = 0 the Health Scorer awards the lowest debt-to-income
\* bucket (5 points) and the Classifier emits no debt-to-income strength.
C4_ZeroIncomeIsMaximalRisk ==
    (HealthShown /\ financial_data.basic_info.income = 0)
        => /\ DebtToIncomePoints(debt_to_income(financial_data)) = 5
           /\ ~Has(view.strengths, "Low debt-to-income ratio (<20%)")
           /\ ~Has(view.strengths, "Healthy debt-to-income ratio (<30%)")

InsightsShown ==
    /\ view.op = "show_simulation_playground"
    /\ view.shown = "insights"

\* C8: whenever the delegate is unavailable, raises, answers nothing,
\* answers text that is not JSON, or answers JSON lacking a key of the
\* response contract, the value returned is the fallback's result for the
\* same inputs.
C8_FallbackOnEveryFailure ==
    (InsightsShown
       /\ (view.delegate # "json"
           \/ ~(ContractKeys \subseteq DOMAIN view.simulation_insights)))
        => view.simulation_insights =
               _generate_fallback_analysis(financial_data, view.asset_info,
                   view.risk_range, view.custom_prompt)

\* C8, without the case of a JSON answer that lacks keys: what the code does.
C8_FallbackWhenNoJson ==
    (InsightsShown /\ view.delegate # "json")
        => /\ view.simulation_insights =
                  _generate_fallback_analysis(financial_data, view.asset_info,
                      view.risk_range, view.custom_prompt)
           /\ ContractKeys \subseteq DOMAIN view.simulation_insights

\* C10: in the fallback's result the payment recommendation and the
\* recommended action agree: "Cash" with "Proceed with purchase if needed"
\* when asset_to_savings_ratio is below the threshold of the risk tolerance,
\* "Installments" with "Consider saving more before purchase" otherwise.
C10_PaymentAndActionAgree ==
    (InsightsShown /\ view.delegate # "json")
        => LET r == view.simulation_insights
               below == RLt(r.metrics.asset_to_savings_ratio,
                            CASE view.risk_range >= 8 -> Pct(70)
                              [] view.risk_range \in 5..7 -> Pct(50)
                              [] view.risk_range \in 1..4 -> Pct(30))
           IN  IF below
               THEN /\ r.payment_recommendation = "Cash"
                    /\ r.metrics.recommended_action = "Proceed with purchase if needed"
               ELSE /\ r.payment_recommendation = "Installments"
                    /\ r.metrics.recommended_action
                           = "Consider saving more before purchase"

\* C10, away from ratio = threshold: what the code does.
C10_AgreeOffThreshold ==
    (InsightsShown /\ view.delegate # "json")
        => LET r == view.simulation_insights
               t == risk_threshold(view.risk_range)
               ratio == r.metrics.asset_to_savings_ratio
           IN  /\ RLt(ratio, t) =>
                     /\ r.payment_recommendation = "Cash"
                     /\ r.metrics.recommended_action
                            = "Proceed with purchase if needed"
               /\ RGt(ratio, t) =>
                     /\ r.payment_recommendation = "Installments"
                     /\ r.metrics.recommended_action
                            = "Consider saving more before purchase"

(***************************************************************************)
(* Claims about the financial tools                                        *)
(***************************************************************************)
DelegateFailed == view.delegate \in {"api_error", "not_json"}

\* C6: with an annual rate of 0 the loan calculator and
\* simulate_loan_fallback raise no division-by-zero error and return the
\* straight-line payment P / T.
C6_ZeroRateLoanIsStraightLine ==
    /\ (view.op = "show_loan_calculator" /\ view.interest_rate = 0)
           => /\ ~IsErr(view.result)
              /\ view.result.monthly_payment
                     = RDiv(Num(view.loan_amount), Num(view.term_months))
    /\ (view.op = "simulate_scenario" /\ view.scenario_type = "loan"
            /\ DelegateFailed
            /\ DOMAIN view.parameters = {"amount", "term", "interest_rate"}
            /\ view.parameters.interest_rate = 0)
           => /\ ~IsErr(view.result)
              /\ view.result.metrics.monthly_payment
                     = RDiv(Num(view.parameters.amount), Num(view.parameters.term))

\* C6, for rates above 0: the payment is defined and amortizes the loan.
C6_PositiveRateLoanIsDefined ==
    (view.op = "show_loan_calculator" /\ view.interest_rate > 0)
        => /\ ~IsErr(view.result)
           /\ RGt(view.result.monthly_payment,
                  RDiv(Num(view.loan_amount), Num(view.term_months)))

\* C7: with monthly contribution C > 0 and a rate of 0 the investment
\* calculator raises no division-by-zero error and the future value is
\* A + C x T.
C7_ZeroRateInvestmentIsLinear ==
    (view.op = "show_investment_calculator" /\ view.monthly_contribution > 0
        /\ view.expected_return = 0)
        => /\ ~IsErr(view.result)
           /\ view.result.future_value
                  = Num(view.initial_investment
                        + view.monthly_contribution * view.total_months)

\* C7, outside C > 0 with rate 0: the future value is defined and is at
\* least the total of the contributions.
C7_InvestmentDefinedOtherwise ==
    (view.op = "show_investment_calculator"
        /\ (view.monthly_contribution = 0 \/ view.expected_return > 0))
        => /\ ~IsErr(view.result)
           /\ RGe(view.result.future_value, view.result.total_contributions)

\* C9: when the API call fails or answers text that is not JSON,
\* analyze_financial_health, simulate_scenario and generate_recommendations
\* return a fallback result: no exception reaches the caller and the result
\* is not None.
C9_DelegateFailureIsRecovered ==
    (view.op \in {"analyze_financial_health", "simulate_scenario",
                  "generate_recommendations"} /\ DelegateFailed)
        => /\ ~IsErr(view.result)
           /\ ~IsNone(view.result)

\* C9, for analyze_financial_health, generate_recommendations and the
\* scenarios other than a loan at rate 0 and an unknown scenario_type.
C9_RecoveredOtherwise ==
    (/\ view.op \in {"analyze_financial_health", "simulate_scenario",
                     "generate_recommendations"}
     /\ DelegateFailed
     /\ view.op = "simulate_scenario" =>
            /\ view.scenario_type \in
                   {"expense_reduction", "income_increase", "loan", "investment"}
            /\ view.scenario_type = "loan" =>
                   Get(view.parameters, "interest_rate", 0) # 0)
        => /\ ~IsErr(view.result)
           /\ ~IsNone(view.result)

(***************************************************************************)
(* Claims about the lists of the scenario fallback                         *)
(***************************************************************************)
TagsOf(seq) == {seq[i] : i \in DOMAIN seq}

\* C11: the strengths and weaknesses of the scenario fallback's result are
\* the Classifier's for the same snapshot: a tag is in the one list iff it
\* is in the other.
C11_FallbackListsAreClassifierLists ==
    (InsightsShown /\ view.delegate # "json")
        => LET a == view.simulation_insights.financial_health_analysis
           IN  /\ TagsOf(a.strengths) = TagsOf(RuleStrengths(financial_data))
               /\ TagsOf(a.weaknesses) = TagsOf(RuleWeaknesses(financial_data))

(***************************************************************************)
(* Claims about the Report Builder                                         *)
(***************************************************************************)
ReportShown ==
    /\ view.op = "export_financial_data"
    /\ "financial_analysis" \in DOMAIN view

\* The periods of the session in calendar order: by year, then by the
\* month's place in the year.
EarlierPeriod(a, b) ==
    LET p1 == PeriodOfKey(a.key)
        p2 == PeriodOfKey(b.key)
    IN  \/ p1.year < p2.year
        \/ p1.year = p2.year /\ IndexOf(months, p1.month) < IndexOf(months, p2.month)

PeriodTotals ==
    [i \in DOMAIN monthly_expenses |->
        [key |-> monthly_expenses[i].key,
         total |-> SumCategories(monthly_expenses[i].amounts,
                                 DOMAIN monthly_expenses[i].amounts)]]

TrendsInOrder(trends, ordered) ==
    /\ Len(trends) = Len(ordered) - 1
    /\ \A i \in DOMAIN trends :
           /\ trends[i].from_month = ordered[i].key
           /\ trends[i].to_month = ordered[i + 1].key
           /\ trends[i].change = ordered[i + 1].total - ordered[i].total
           /\ trends[i].change_percent =
                  IF ordered[i].total = 0 THEN Num(0)
                  ELSE RMul(Norm(trends[i].change, ordered[i].total), Num(100))

\* C15: the monthly trend list has one entry per consecutive pair of
\* periods in calendar order, with change = to-total minus from-total and
\* change_percent = change / from-total x 100 (0 when from-total is 0).
C15_TrendsInCalendarOrder ==
    ReportShown =>
        TrendsInOrder(view.financial_analysis.trends.monthly_trends,
                      SortedBy(PeriodTotals, EarlierPeriod))

\* C15, in the order of the key strings: what the code does.
C15_TrendsInKeyStringOrder ==
    ReportShown =>
        TrendsInOrder(view.financial_analysis.trends.monthly_trends,
                      SortedBy(PeriodTotals, EarlierKey))

\* The categories of the session, the total of each, and which of two was
\* seen first while iterating the periods and their categories.
SessionCategories ==
    UNION {DOMAIN monthly_expenses[i].amounts : i \in DOMAIN monthly_expenses}

RECURSIVE TotalOf(_, _)
TotalOf(c, expenses) ==
    IF expenses = <<>> THEN 0
    ELSE (IF c \in DOMAIN Head(expenses).amounts
          THEN Head(expenses).amounts[c] ELSE 0)
         + TotalOf(c, Tail(expenses))

FirstPeriodOf(c) ==
    CHOOSE i \in DOMAIN monthly_expenses :
        /\ c \in DOMAIN monthly_expenses[i].amounts
        /\ \A j \in 1..(i - 1) : c \notin DOMAIN monthly_expenses[j].amounts

SeenBefore(c, d) ==
    \/ FirstPeriodOf(c) < FirstPeriodOf(d)
    \/ /\ FirstPeriodOf(c) = FirstPeriodOf(d)
       /\ IndexOf(monthly_expenses[FirstPeriodOf(c)].order, c)
              < IndexOf(monthly_expenses[FirstPeriodOf(c)].order, d)

RanksBefore(c, d) ==
    \/ TotalOf(c, monthly_expenses) > TotalOf(d, monthly_expenses)
    \/ /\ TotalOf(c, monthly_expenses) = TotalOf(d, monthly_expenses)
       /\ SeenBefore(c, d)

\* C16: top_categories has min(5, number of categories) entries, ordered by
\* total descending, categories of equal total in first-seen order.
C16_TopFiveByTotalThenFirstSeen ==
    ReportShown =>
        LET top == view.financial_analysis.expenses.top_categories
            n == Cardinality(SessionCategories)
        IN  /\ Len(top) = IF n < 5 THEN n ELSE 5
            /\ \A i \in DOMAIN top :
                   /\ top[i].category \in SessionCategories
                   /\ top[i].amount = TotalOf(top[i].category, monthly_expenses)
            /\ \A i, j \in DOMAIN top :
                   i < j => RanksBefore(top[i].category, top[j].category)
            /\ \A c \in SessionCategories :
                   (\A i \in DOMAIN top : top[i].category # c)
                       => \A i \in DOMAIN top : RanksBefore(top[i].category, c)

\* C16 witness: six categories, the fifth entry of the list has the same
\* total as the category left out.
C16_Witness ==
    /\ ReportShown
    /\ Cardinality(SessionCategories) = 6
    /\ Len(view.financial_analysis.expenses.top_categories) = 5
    /\ \E c \in SessionCategories :
           /\ \A i \in 1..5 :
                  view.financial_analysis.expenses.top_categories[i].category # c
           /\ TotalOf(c, monthly_expenses)
                  = view.financial_analysis.expenses.top_categories[5].amount

\* The session's periods and the categories inside each period in another
\* order: each of them reversed.
ReversedCategories(expenses) ==
    [i \in DOMAIN expenses |-> [expenses[i] EXCEPT !.order = Reverse(@)]]

Reorderings(expenses) ==
    {Reverse(expenses), ReversedCategories(expenses),
     Reverse(ReversedCategories(expenses))}

\* C17: the report of the same periods and categories in another order has
\* the same top_categories list.
C17_TopFiveUnderReordering ==
    ReportShown =>
        \A other \in Reorderings(monthly_expenses) :
            generate_financial_analysis(user_data, other).expenses.top_categories
                = view.financial_analysis.expenses.top_categories

\* C17, for sessions whose category totals are all different: what the
\* code does.
C17_SameWhenTotalsDiffer ==
    (ReportShown
       /\ \A c, d \in SessionCategories :
              c # d => TotalOf(c, monthly_expenses) # TotalOf(d, monthly_expenses))
        => \A other \in Reorderings(monthly_expenses) :
               generate_financial_analysis(user_data, other).expenses.top_categories
                   = view.financial_analysis.expenses.top_categories

\* The session as the snapshot the Health Scorer and the Classifier read.
SessionSnapshot ==
    [basic_info |-> user_data, monthly_expenses |-> monthly_expenses]

HasTitle(recs, title) == \E i \in DOMAIN recs : recs[i].title = title

\* C18: the report's savings_rate and debt_to_income_ratio are the values
\* the Health Scorer computes for the same snapshot, and "Reduce Debt" is
\* recommended exactly when that debt-to-income ratio exceeds 0.40.
C18_SummaryIsScorerMetrics ==
    ReportShown =>
        /\ view.financial_analysis.summary.savings_rate
               = savings_rate(SessionSnapshot)
        /\ view.financial_analysis.summary.debt_to_income_ratio
               = debt_to_income(SessionSnapshot)
        /\ HasTitle(view.financial_analysis.recommendations.debt, "Reduce Debt")
               <=> RGt(debt_to_income(SessionSnapshot), Pct(40))

\* C18, the savings rate alone: what the code does.
C18_SavingsRateIsScorers ==
    ReportShown =>
        view.financial_analysis.summary.savings_rate = savings_rate(SessionSnapshot)

AllRecommendations ==
    view.financial_analysis.recommendations.savings
    \o view.financial_analysis.recommendations.debt
    \o view.financial_analysis.recommendations.expenses
    \o view.financial_analysis.recommendations.income

ReviewTitle(category) == "Review " \o category \o " Expenses"

ReviewOfTopCategory ==
    LET recs == AllRecommendations
        reviews == {i \in DOMAIN recs :
                       \E c \in SessionCategories : recs[i].title = ReviewTitle(c)}
    IN  /\ Cardinality(reviews) = 1
        /\ \A i \in reviews : \E c \in SessionCategories :
               /\ recs[i].title = ReviewTitle(c)
               /\ \A d \in SessionCategories :
                      TotalOf(c, monthly_expenses) >= TotalOf(d, monthly_expenses)

\* C19: every non-empty report has exactly one "review top category"
\* recommendation, which names a category of the highest total, and every
\* recommendation has priority "high" or "medium".
C19_OneReviewOfTopCategory ==
    ReportShown =>
        /\ ReviewOfTopCategory
        /\ \A i \in DOMAIN AllRecommendations :
               AllRecommendations[i].priority \in {"high", "medium"}

\* C19, for sessions with at least one category: what the code does.
C19_OneReviewWhenCategories ==
    (ReportShown /\ SessionCategories # {})
        => /\ ReviewOfTopCategory
           /\ \A i \in DOMAIN AllRecommendations :
                  AllRecommendations[i].priority \in {"high", "medium"}

(***************************************************************************)
(* Claims about the Classifier                                             *)
(***************************************************************************)
If(cond, tag) == IF cond THEN {tag} ELSE {}

\* The rule table of section 4.3 over the metrics of section 4.1.
TableStrengths(fd) ==
    LET sr == savings_rate(fd)
        ef == emergency_fund_months(fd)
        dti == MetricsDebtToIncome(fd)
    IN  If(RGe(sr, Pct(20)), "Excellent savings rate (>=20%)")
        \cup If(RGe(sr, Pct(15)) /\ RLt(sr, Pct(20)), "Good savings rate (>=15%)")
        \cup If(RGe(ef, Num(6)), "Strong emergency fund (>=6 months)")
        \cup If(RGe(ef, Num(3)) /\ RLt(ef, Num(6)),
                "Adequate emergency fund (>=3 months)")
        \cup If(RLt(dti, Pct(20)), "Low debt-to-income ratio (<20%)")
        \cup If(RGe(dti, Pct(20)) /\ RLt(dti, Pct(30)),
                "Healthy debt-to-income ratio (<30%)")
        \cup If(fd.basic_info.savings > 0, "Positive savings balance")

TableWeaknesses(fd) ==
    LET sr == savings_rate(fd)
        ef == emergency_fund_months(fd)
        dti == MetricsDebtToIncome(fd)
    IN  If(RLt(sr, Pct(10)), "Low savings rate (<10%)")
        \cup If(RLt(ef, Num(3)), "Insufficient emergency fund (<3 months)")
        \cup If(RGt(dti, Pct(40)), "High debt-to-income ratio (>40%)")
        \cup If(RGt(avg_expenses(fd), RMul(Pct(80), Num(fd.basic_info.income))),
                "High expense-to-income ratio (>80%)")

\* C20: the strengths and weaknesses shown are exactly the tags whose rule
\* holds for the snapshot's metrics, each once.
C20_TagsOfRuleTable ==
    HealthShown =>
        /\ TagsOf(view.strengths) = TableStrengths(financial_data)
        /\ TagsOf(view.weaknesses) = TableWeaknesses(financial_data)
        /\ Len(view.strengths) = Cardinality(TagsOf(view.strengths))
        /\ Len(view.weaknesses) = Cardinality(TagsOf(view.weaknesses))

\* C20, for income > 0: what the code does.
C20_TagsOfRuleTablePositiveIncome ==
    (HealthShown /\ financial_data.basic_info.income > 0) =>
        /\ TagsOf(view.strengths) = TableStrengths(financial_data)
        /\ TagsOf(view.weaknesses) = TableWeaknesses(financial_data)
        /\ Len(view.strengths) = Cardinality(TagsOf(view.strengths))
        /\ Len(view.weaknesses) = Cardinality(TagsOf(view.weaknesses))

(***************************************************************************)
(* Claims about import and export                                          *)
(***************************************************************************)
ImportShown == view.op = "import_financial_data"

\* The handler showed one of its two st.error messages.
ImportReportedError ==
    /\ ImportShown
    /\ view.messages[Len(view.messages)]
           \in {"Error importing data", "Invalid data format"}

\* C12: when import_financial_data reports an error, user_data,
\* monthly_expenses and financial_data are what they were before the call.
C12_ErrorChangesNothing ==
    ImportReportedError => SessionState = view.before

\* C12, for the errors found before the session is assigned (a text that
\* is not JSON, a missing basic_info or monthly_expenses key).
C12_FormatErrorChangesNothing ==
    (/\ ImportShown
     /\ \/ view.raised = JSONDecodeError
        \/ view.messages = <<"Invalid data format">>)
        => SessionState = view.before

\* A file with a negative income, savings or debt, or a negative amount.
HasNegativeValue(uploaded_file) ==
    /\ IsJSON(uploaded_file)
    /\ LET import_data == json_load(uploaded_file)
       IN  /\ {"basic_info", "monthly_expenses"} \subseteq DOMAIN import_data
           /\ LET basic_info == loads_dict(import_data["basic_info"])
                  expenses == loads_expenses(import_data["monthly_expenses"])
              IN  \/ \E k \in DOMAIN basic_info : basic_info[k] < 0
                  \/ \E i \in DOMAIN expenses :
                        /\ IsMapping(expenses[i])
                        /\ \E c \in DOMAIN expenses[i].amounts :
                               expenses[i].amounts[c] < 0

\* C13: a file with a negative money value is rejected, and the session
\* keeps its previous user_data, monthly_expenses and financial_data.
C13_NegativeValuesRejected ==
    (ImportShown /\ HasNegativeValue(view.uploaded_file))
        => ImportReportedError /\ SessionState = view.before

\* The file imported is the one the preceding export offered.
RoundTripDone == ImportShown /\ view.downloaded # NoView

\* C14: after exporting a session and importing the exported file,
\* user_data and monthly_expenses equal those exported (same values, same
\* period keys in the same order, same category amounts), and so do
\* financial_data.basic_info and financial_data.monthly_expenses.
C14_RoundTrip ==
    RoundTripDone =>
        /\ user_data = view.downloaded.exported.user_data
        /\ monthly_expenses = view.downloaded.exported.monthly_expenses
        /\ financial_data.basic_info = view.downloaded.exported.user_data
        /\ financial_data.monthly_expenses
               = view.downloaded.exported.monthly_expenses

\* A round trip of two periods entered January first, which is not the
\* order of the key strings.
C14_Witness ==
    /\ RoundTripDone
    /\ Len(monthly_expenses) = 2
    /\ monthly_expenses[1].key = month_key(2024, "January")
    /\ monthly_expenses[2].amounts[expense_categories[2]] = 500
    /\ user_data.income = 1000

(***************************************************************************)
(* Claims about the lists of one Classifier call                           *)
(***************************************************************************)
ClassifierReturned == view.op = "_calculate_strengths_weaknesses"
NoDuplicates(seq) == \A i, j \in DOMAIN seq : i # j => seq[i] # seq[j]

C21_NoDuplicatesWithoutDelegateLists ==
    (/\ ClassifierReturned
     /\ "strengths" \notin DOMAIN view.analysis
     /\ "weaknesses" \notin DOMAIN view.analysis)
        => /\ NoDuplicates(view.returned.strengths)
           /\ NoDuplicates(view.returned.weaknesses)

(***************************************************************************)
(* Claims about the consistency of the Classifier's tags                   *)
(***************************************************************************)
SavingsRateStrengths ==
    {"Excellent savings rate (>=20%)", "Good savings rate (>=15%)"}
EmergencyFundStrengths ==
    {"Strong emergency fund (>=6 months)", "Adequate emergency fund (>=3 months)"}
DebtToIncomeStrengths ==
    {"Low debt-to-income ratio (<20%)", "Healthy debt-to-income ratio (<30%)"}
CountIn(seq, tags) == Cardinality({i \in DOMAIN seq : seq[i] \in tags})

\* C30: the tags of one snapshot never contradict each other: no
\* savings-rate strength with the low-savings-rate weakness, no
\* debt-to-income strength with the high-debt-to-income weakness, exactly
\* one of an emergency-fund strength and the insufficient-emergency-fund
\* weakness, at most one strength per metric, and never the excellent
\* savings rate with the high expense-to-income ratio.
C30_TagsNeverContradict ==
    HealthShown =>
        LET s == view.strengths
            w == view.weaknesses
        IN  /\ ~(CountIn(s, SavingsRateStrengths) > 0
                 /\ Has(w, "Low savings rate (<10%)"))
            /\ ~(CountIn(s, DebtToIncomeStrengths) > 0
                 /\ Has(w, "High debt-to-income ratio (>40%)"))
            /\ CountIn(s, EmergencyFundStrengths)
                   + CountIn(w, {"Insufficient emergency fund (<3 months)"}) = 1
            /\ CountIn(s, SavingsRateStrengths) <= 1
            /\ CountIn(s, EmergencyFundStrengths) <= 1
            /\ CountIn(s, DebtToIncomeStrengths) <= 1
            /\ ~(Has(s, "Excellent savings rate (>=20%)")
                 /\ Has(w, "High expense-to-income ratio (>80%)"))

\* A snapshot on the 20% boundary of the savings rate (expenses of 800 on
\* an income of 1000) with an adequate emergency fund and a high debt
\* ratio.
C30_Witness ==
    /\ HealthShown
    /\ Has(view.strengths, "Excellent savings rate (>=20%)")
    /\ Has(view.strengths, "Adequate emergency fund (>=3 months)")
    /\ Has(view.weaknesses, "High debt-to-income ratio (>40%)")
    /\ expense_ratio(financial_data) = Pct(80)

(***************************************************************************)
(* Claims about the debt repayment strategies                              *)
(***************************************************************************)
\* The strategy months a page reported, or none.
DebtAnalysisShown == HealthShown /\ "months" \in DOMAIN view.debt_analysis
PlannerStrategiesShown ==
    view.op = "show_debt_repayment_planner" /\ "months" \in DOMAIN view
StrategyOrder(m) ==
    RLe(m["Aggressive"], m["Balanced"]) /\ RLe(m["Balanced"], m["Conservative"])

\* C22: in the Debt Analysis tab and in the Debt Repayment Planner, the
\* months to repay of the aggressive strategy are at most those of the
\* balanced one, which are at most those of the conservative one.
C22_StrategiesAreOrdered ==
    /\ DebtAnalysisShown => StrategyOrder(view.debt_analysis.months)
    /\ PlannerStrategiesShown => StrategyOrder(view.months)

\* The Debt Analysis tab reported three different numbers of months for a
\* debt of 2400 and a surplus of 200.
C22_Witness ==
    /\ DebtAnalysisShown
    /\ view.debt_analysis.monthly_surplus = Num(200)
    /\ view.debt_analysis.months["Aggressive"] = Num(15)
    /\ view.debt_analysis.months["Balanced"] = Num(24)
    /\ view.debt_analysis.months["Conservative"] = Num(40)

\* income - average expense of the snapshot, as section 4.1 defines it.
SnapshotSurplus(fd) == RSub(monthly_income(fd), avg_expenses(fd))

\* C23: with a monthly surplus <= 0 the Debt Analysis tab (when there is a
\* debt to repay) and the planner report "not enough monthly surplus" and
\* no strategy months.
C23_NoSurplusIsReported ==
    /\ (/\ HealthShown
        /\ RGt(current_debt(financial_data), Num(0))
        /\ RLe(SnapshotSurplus(financial_data), Num(0)))
           => view.debt_analysis.shown = "not enough monthly surplus"
    /\ (/\ view.op = "show_debt_repayment_planner"
        /\ ~IsNone(financial_data)
        /\ RLe(planner_surplus(financial_data), Num(0)))
           => view.shown = "not enough monthly surplus"

\* C23, the part the code keeps: no strategy months are computed from a
\* surplus <= 0, and no number of months is negative.
C23_NoMonthsWithoutSurplus ==
    /\ DebtAnalysisShown =>
           /\ RGt(SnapshotSurplus(financial_data), Num(0))
           /\ \A st \in DOMAIN view.debt_analysis.months :
                  RGe(view.debt_analysis.months[st], Num(0))
    /\ PlannerStrategiesShown =>
           /\ RGt(planner_surplus(financial_data), Num(0))
           /\ \A st \in DOMAIN view.months : RGe(view.months[st], Num(0))

\* C29: for an imported snapshot with a debt and an income above the
\* average expense, the planner reports the three strategies with
\* months_to_repay = debt / (surplus x pct).
C29_PlannerUsesImportedSnapshot ==
    (/\ view.op = "show_debt_repayment_planner"
     /\ financial_data \in DebtSnapshots
     /\ financial_data.basic_info.debt > 0
     /\ RGt(SnapshotSurplus(financial_data), Num(0)))
        => /\ PlannerStrategiesShown
           /\ \A st \in DOMAIN strategies :
                  view.months[st] =
                      months_to_repay(financial_data.basic_info.debt,
                                      SnapshotSurplus(financial_data),
                                      strategies[st])

\* C29, as the code behaves: for an imported snapshot the planner finds no
\* income and reports no strategy.
C29_PlannerFindsNoIncome ==
    (view.op = "show_debt_repayment_planner" /\ financial_data \in DebtSnapshots)
        => view.shown = "not enough monthly surplus"

(***************************************************************************)
(* Claims about the month-by-month tables of the calculators               *)
(***************************************************************************)
LoanScheduleShown ==
    /\ view.op = "show_loan_calculator"
    /\ view.interest_rate > 0
    /\ ~IsErr(view.result)

RECURSIVE SumPrincipal(_, _)
SumPrincipal(schedule, k) ==
    IF k = 0 THEN Num(0)
    ELSE RAdd(SumPrincipal(schedule, k - 1), schedule[k].principal_payment)

RAbs(a) == IF a.n < 0 THEN [n |-> -a.n, d |-> a.d] ELSE a

\* What one unit of rounding of the payment amounts to after T payments:
\* ((1 + r)^T - 1) / r units.
RoundingTolerance ==
    LET monthly_rate == RDiv(RDiv(Num(view.interest_rate), Num(100)), Num(12))
        quotient == loan_monthly_payment(Num(view.loan_amount), monthly_rate,
                                         view.term_months)
    IN  RDiv(RDiv(RSub(RPow(RAdd(Num(1), monthly_rate), view.term_months),
                       Num(1)),
                  monthly_rate),
             Num(quotient.d))

FinalBalance == view.result.schedule[view.term_months].remaining_balance

\* C24: the principal payments of the schedule sum to the loan amount
\* within the rounding tolerance, the last remaining balance is 0 within
\* it, and no row has a negative remaining balance.
C24_ScheduleAmortizes ==
    LoanScheduleShown =>
        /\ RLe(RAbs(RSub(SumPrincipal(view.result.schedule, view.term_months),
                         Num(view.loan_amount))),
               RoundingTolerance)
        /\ RLe(RAbs(FinalBalance), RoundingTolerance)
        /\ \A k \in DOMAIN view.result.schedule :
               RGe(view.result.schedule[k].remaining_balance, Num(0))

\* C24, without the sign of the balances: the sum and the last balance
\* are right within the rounding tolerance.
C24_AmortizesWithinTolerance ==
    LoanScheduleShown =>
        /\ RLe(RAbs(RSub(SumPrincipal(view.result.schedule, view.term_months),
                         Num(view.loan_amount))),
               RoundingTolerance)
        /\ RLe(RAbs(FinalBalance), RoundingTolerance)

InvestmentShown ==
    /\ view.op = "show_investment_calculator"
    /\ view.expected_return > 0
    /\ ~IsErr(view.result)

\* C28: the growth series starts at the initial amount and its last
\* balance is the future value of the summary.
C28_SeriesEndsAtFutureValue ==
    InvestmentShown =>
        /\ view.result.growth_data[1] = Num(view.initial_investment)
        /\ view.result.growth_data[view.total_months + 1]
               = view.result.future_value

\* C28, without contributions: the series ends at the future value.
C28_SeriesOfLumpSumEndsAtFutureValue ==
    (InvestmentShown /\ view.monthly_contribution = 0) =>
        /\ view.result.growth_data[1] = Num(view.initial_investment)
        /\ view.result.growth_data[view.total_months + 1]
               = view.result.future_value

(***************************************************************************)
(* Claims about the average monthly expense                                *)
(***************************************************************************)
\* The session's inputs as the snapshot the Health Scorer, the Classifier
\* and the scenario fallback read.
SnapshotOfSession ==
    [basic_info |-> user_data, monthly_expenses |-> monthly_expenses]

\* C25: the average monthly expense of the Report Builder is the one the
\* Health Scorer, the Classifier and the scenario fallback compute for the
\* same monthly_expenses: the sum of the periods' totals divided by the
\* number of periods; over no period it is 0.
C25_OneAverageMonthlyExpense ==
    /\ ReportShown =>
           /\ view.financial_analysis.summary.avg_monthly_expense
                  = avg_expenses(SnapshotOfSession)
           /\ view.financial_analysis.summary.avg_monthly_expense
                  = Norm(SumPeriods(monthly_expenses), Len(monthly_expenses))
    /\ monthly_expenses = <<>> => avg_expenses(SnapshotOfSession) = Num(0)

\* A report over two periods, one of them without expenses.
C25_Witness ==
    /\ ReportShown
    /\ Len(monthly_expenses) = 2
    /\ view.financial_analysis.expenses.total_by_month[1].total = 0
    /\ view.financial_analysis.summary.avg_monthly_expense = Num(450)

(***************************************************************************)
(* Claims about the session snapshot                                       *)
(***************************************************************************)
FinancialDataIsSet == financial_data # None

\* C26: after any sequence of import, Save Basic Information, Save Monthly
\* Expenses and clear, whenever financial_data is set its basic_info is the
\* current user_data and its monthly_expenses is the current monthly_expenses.
C26_FinancialDataIsCurrent ==
    FinancialDataIsSet =>
        /\ financial_data.basic_info = user_data
        /\ financial_data.monthly_expenses = monthly_expenses

\* The monthly expenses of financial_data are the current ones in every state:
\* the page writes into the dict the import stored under both names.
C26_ExpensesOfFinancialDataAreCurrent ==
    FinancialDataIsSet => financial_data.monthly_expenses = monthly_expenses

KeysOf(items) == {items[i].key : i \in DOMAIN items}

\* A run of the Monthly Expenses page whose form is not submitted.
DisplayWithoutSubmit ==
    \E period \in SelectedPeriods, expense_data \in ExpenseData :
        ShowMonthlyExpenses(period[1], period[2], FALSE, expense_data)

SamePeriods(old, new) ==
    /\ KeysOf(new) = KeysOf(old)
    /\ Len(new) = Len(old)

\* C27: displaying the Monthly Expenses page for a selected month without
\* submitting the form leaves the snapshot as it was: the period keys of
\* monthly_expenses and of an imported financial_data's monthly_expenses, and
\* with them the number of periods the average is taken over, are the same
\* before and after.
C27_DisplayLeavesSnapshotUnchanged ==
    [][DisplayWithoutSubmit =>
          /\ SamePeriods(monthly_expenses, monthly_expenses')
          /\ FinancialDataIsSet =>
                 SamePeriods(financial_data.monthly_expenses,
                             financial_data'.monthly_expenses)]_vars

\* Displaying a month that already has an entry changes nothing, and
\* displaying any month changes no entry that was there.
C27_DisplayOfKnownMonthChangesNothing ==
    [][DisplayWithoutSubmit =>
          /\ view'.month_key \in KeysOf(monthly_expenses) =>
                 UNCHANGED <<monthly_expenses, financial_data>>
          /\ \A i \in DOMAIN monthly_expenses :
                 monthly_expenses'[i] = monthly_expenses[i]]_vars

\* The entry a display adds is the selected month with every category at 0.
C27_DisplayAddsZeroEntry ==
    [][(DisplayWithoutSubmit
          /\ view'.month_key \notin KeysOf(monthly_expenses)) =>
          /\ monthly_expenses' =
                 Append(monthly_expenses, ZeroExpenses(view'.month_key))
          /\ FinancialDataIsSet =>
                 financial_data'.monthly_expenses = monthly_expenses']_vars

=============================================================================
